---- MODULE Spec2Model ----
(***************************************************************************)
(* Model of the hyperion limit order book (cpp-engine/include/orderbook.hpp *)
(* and the Order value type of cpp-engine/include/order.hpp).               *)
(*                                                                          *)
(* Prices and quantities are C++ doubles; the model draws them from small   *)
(* integer ranges (ticks and lots), on which std::min, -= and the           *)
(* comparisons are exact.  One add() is a sequence of steps: entry, then    *)
(* per fill the call of executeTrade (trade callback running) followed by   *)
(* the bookkeeping of the fill, then the return.  pc = "idle" is "no public *)
(* operation is in progress".                                               *)
(***************************************************************************)
EXTENDS Integers, Sequences, FiniteSets, TLC

\* ---- bounds of the model ------------------------------------------------
MaxOrders == 3      \* number of add() calls explored
MaxPrice  == 2      \* prices are 1..MaxPrice
MaxQty    == 2      \* quantities are 1..MaxQty

Prices     == 1..MaxPrice
Quantities == 1..MaxQty
Sides      == {"BID", "ASK"}

VARIABLES
    bids,         \* OrderBook::bids_   : levels, sorted by std::greater (highest first)
    asks,         \* OrderBook::asks_   : levels, sorted by std::less (lowest first)
    orderIndex,   \* OrderBook::orderIndex_ : ids with an entry; the stored iterator
                  \*   denotes the list node addToBook created for that id
    nextOrderId,  \* OrderBook::nextOrderId_
    tradeCount,   \* OrderBook::tradeCount_
    lastPrice,    \* OrderBook::lastPrice_
    pc,           \* position of the caller: "idle", "match", "trade"
    incoming,     \* the local Order of addOrder
    fillQty,      \* the local fillQty of matchBid / matchAsk
    ret,          \* value returned by the last addOrder (0 while none has returned)
    cancelRet,    \* value returned by the last cancelOrder (FALSE while none has)
    lastOp,       \* last public operation entered: "none", "add", "cancel", "clear"
    arg,          \* arguments of the last public operation
    trades,       \* Trade values handed to executeTrade since the last public
                  \*   operation began
    placedQty,    \* history: sum of the quantities passed to add
    tradedQty,    \* history: sum of the quantities of all trades
    removedQty,   \* history: residual quantity removed by cancel and clear
    zeroRetQty,   \* history: sum of the quantities of the adds that returned 0
    dead,         \* history: ids removed by cancel or by a complete fill while resting
    entry,        \* history: the two ladders as the add() in progress or last returned
                  \*   found them
    issuedAtClear, \* history: getOrderCount() at the latest clear(), 0 before it
    undefined     \* TRUE once an invalidated list iterator was dereferenced, or the
                  \*   book was read by one thread while another was modifying it

\* ---- the threads of the engine (order.hpp 45-562, telemetry.hpp, main.cpp) --
MaxConn == 2        \* number of connections the listener is offered
MaxGenerated == 2   \* number of orders the Generator produces
BatchSize == 1      \* BATCH_SIZE of runSimulation(), 10000 in the source
MaxStarts == 2      \* number of worker threads the Generator's owner may start

Threads == {"main", "other", "pub"}   \* threads that call into the components
Sockets == 1..MaxConn                 \* one descriptor per accepted connection

VARIABLES
    stack,        \* per thread: the positions of its active calls, innermost first;
                  \*   a position names the source line the thread executes next
    returned,     \* per thread: the value its last completed call returned, as text
    wsRunning,    \* WebSocketServer::running_
    serverSocket, \* WebSocketServer::serverSocket_ : "INVALID" or "fd"
    listener,     \* the listening socket itself: "none", "open", "closed", or "lost":
                  \*   open, but serverSocket_ was overwritten and no longer names it
    acceptThread, \* WebSocketServer::acceptThread_ : "empty" or "joinable"
    accPc,        \* position of the accept thread: "none", "473", "477", "blocked",
                  \*   "exited"
    clients,      \* WebSocketServer::clients_ : sequence of descriptors
    clientsMutex, \* WebSocketServer::clientsMutex_ : "free", the calling thread that
                  \*   holds it, or "handshake"
    sock,         \* per descriptor: "fresh" (not yet accepted), "open", "closed"
    hsPc,         \* per descriptor: position of its handshake thread
    frame,        \* per thread: the local frame of broadcast()
    clientIt,     \* the iterator of broadcast(): an index into clients_
    request,      \* per descriptor: what recv gave its handshake thread: "none",
                  \*   "failed", "nokey" (no Sec-WebSocket-Key header) or "key"
    sent101,      \* history: descriptors the 101 response was sent to
    early,        \* history: descriptors a frame was written to before their 101
    lastBc,       \* history: the latest fan-out: clients_ when the lock was taken,
                  \*   the sends attempted and the descriptors whose send failed
    setupFailed,  \* history: the latest start() of the Transport Server returned false
    simRunning,   \* SimulationStats::running
    targetOPS,    \* MarketSimulator::targetOPS_ (0 until the first start sets it)
    simThread,    \* MarketSimulator::simulationThread_ : "empty" or "joinable"
    workerPc,     \* position of the thread running runSimulation(): "none", "140",
                  \*   "144", "145", "146", "147", "156", "exited"
    batchI,       \* the local i of runSimulation()
    ordersGenerated, \* SimulationStats::ordersGenerated
    tradesExecuted,  \* SimulationStats::tradesExecuted
    startArg,     \* per thread: the argument of its call of MarketSimulator::start
    stopReturned, \* MarketSimulator::stop has returned and start was not called since
    spawned,      \* history: number of threads created to run runSimulation()
    periods,      \* history: number of times running went from false to true
    terminated,   \* std::terminate was called (a joinable std::thread was assigned to)
    telRunning,   \* TelemetryServer::running_
    telThread,    \* TelemetryServer::broadcastThread_ : "empty" or "joinable"
    gRunning,     \* g_running of main.cpp, cleared by the SIGINT handler
    shutdown,     \* history: the first begin and the first end of each component's
                  \*   stop, in the order they happened
    payload,      \* the message last given to createFrame, as bytes
    framed,       \* the frame createFrame returned for it
    key,          \* the Sec-WebSocket-Key of the request being answered, as characters
    sha,          \* SHA1::hash at work: its locals padded, chunk, i, w, h0..h4, a..e
    digest,       \* the 20 bytes SHA1::hash returned
    b64,          \* Base64::encode at work: its position in the input, val, valb, result
    acceptKey,    \* the characters Base64::encode returned for the digest
    wire,         \* the upgrade request of the first connection: the segments its
                  \*   client has not sent yet
    arrived,      \* the bytes of it that wait in the socket's receive queue
    buffer,       \* performHandshake's buffer: what recv copied out, <<>> before
    record,       \* buildTelemetryJSON: totalOrders and totalTrades of the record built
                  \*   last, and how many records were built (up to MaxRecords)
    clientSubscriptions, \* server.ts: the Map from each connected client to its set
                  \*   of symbols
    subscribedSymbols,   \* server.ts: the symbols with at least one subscriber
    session,      \* per browser client of the proxy: its state "new", "open" or
                  \*   "gone", and the symbol of its handleSubscribe that awaits
                  \*   initBinanceAdapter ("none" when none does)
    binanceAdapter, \* server.ts: the BinanceAdapter singleton with the fields of
                  \*   BaseAdapter and BinanceAdapter; created is FALSE while the
                  \*   module variable is null
    store,        \* the frontend store: ws, isConnected, reconnectAttempts
    page          \* the browser page of the store: the WebSockets it created, its
                  \*   pending timers, and what the user asked for last

transport == <<wsRunning, serverSocket, listener, acceptThread, accPc, clients,
               clientsMutex, sock, hsPc, request, frame, clientIt, sent101, early,
               lastBc, setupFailed>>
generator == <<simRunning, targetOPS, simThread, workerPc, batchI, ordersGenerated,
               tradesExecuted, startArg, stopReturned, spawned, periods, terminated>>
publisher == <<telRunning, telThread>>
codec == <<payload, framed, key, sha, digest, b64, acceptKey>>
handshakeIo == <<wire, arrived, buffer>>
proxy == <<clientSubscriptions, subscribedSymbols, session>>
frontend == <<store, page>>
web == <<proxy, binanceAdapter, frontend>>
others == <<handshakeIo, record, web>>
outside == <<stack, returned, transport, generator, publisher, gRunning, shutdown, codec,
             others>>

\* SHA1::hash is not running
NoHash == [phase |-> "idle", padded |-> <<>>, chunk |-> 0, i |-> 0, w |-> <<>>,
           h |-> <<>>, v |-> <<>>]

\* Base64::encode is not running
NoEncode == [phase |-> "idle", pos |-> 0, val |-> <<0, 0>>, valb |-> -6, result |-> <<>>]

\* no telemetry record was built yet
NoRecord == [orders |-> 0, trades |-> 0, built |-> 0]

\* the most browser clients that connect to the proxy
MaxClients == 2

\* the browser clients of the proxy, each one WebSocket of wss.on('connection')
Clients == 1..MaxClients

\* the USDT pairs the clients ask for
Symbols == {"BTCUSDT", "ETHUSDT"}

\* binanceAdapter is null: nothing was created. Of a BinanceAdapter: ws is the
\* state of the socket this.ws names ("null", "connecting", "open", "closed");
\* caller is who awaits connect() ("none", "init" for initBinanceAdapter,
\* "timer" for the reconnect timer's callback); reconnectTimer is "null",
\* "pending" or "fired"; delay is the delay of the timer set last, in units of
\* reconnectDelay; upstream is the set of symbols the socket this.ws names was
\* sent SUBSCRIBE for and no UNSUBSCRIBE since; detached is what a socket
\* that disconnect() closed and dropped still has to emit ("none", "abort"
\* for error and close of a socket closed while connecting, "close");
\* intentional records that disconnect() was called and connect() was not
\* called since, by anyone but the reconnect timer
NoAdapter == [created |-> FALSE, ws |-> "null", caller |-> "none", connected |-> FALSE,
              reconnectAttempts |-> 0, reconnectTimer |-> "null", delay |-> 0,
              subscriptions |-> {}, subscribedStreams |-> {}, upstream |-> {},
              detached |-> "none", intentional |-> FALSE]

\* the store before connect(): no socket, not connected, no attempt counted
NoStore == [ws |-> 0, isConnected |-> FALSE, reconnectAttempts |-> 0]

\* the page before the hook's effect ran: no WebSocket was created, no timer
\* is pending, disconnect() was not called
NoPage == [sockets |-> <<>>, timers |-> 0, hookTimer |-> FALSE, stopped |-> FALSE,
           calls |-> 0]

NoBroadcast == [atLock |-> <<>>, attempts |-> <<>>, failed |-> {}, done |-> FALSE]

\* the state the constructors leave
InitOutside ==
    /\ stack = [t \in Threads |-> <<>>]
    /\ returned = [t \in Threads |-> "none"]
    /\ wsRunning = FALSE
    /\ serverSocket = "INVALID"
    /\ listener = "none"
    /\ acceptThread = "empty"
    /\ accPc = "none"
    /\ clients = <<>>
    /\ clientsMutex = "free"
    /\ sock = [s \in Sockets |-> "fresh"]
    /\ hsPc = [s \in Sockets |-> "none"]
    /\ request = [s \in Sockets |-> "none"]
    /\ frame = [t \in Threads |-> <<>>]
    /\ clientIt = 0
    /\ sent101 = {}
    /\ early = {}
    /\ lastBc = NoBroadcast
    /\ setupFailed = FALSE
    /\ simRunning = FALSE
    /\ targetOPS = 0
    /\ simThread = "empty"
    /\ workerPc = "none"
    /\ batchI = 0
    /\ ordersGenerated = 0
    /\ tradesExecuted = 0
    /\ startArg = [t \in Threads |-> 0]
    /\ stopReturned = FALSE
    /\ spawned = 0
    /\ periods = 0
    /\ terminated = FALSE
    /\ telRunning = FALSE
    /\ telThread = "empty"
    /\ gRunning = TRUE
    /\ shutdown = <<>>
    /\ payload = <<>>
    /\ framed = <<>>
    /\ key = <<>>
    /\ sha = NoHash
    /\ digest = <<>>
    /\ b64 = NoEncode
    /\ acceptKey = <<>>
    /\ wire = <<>>
    /\ arrived = <<>>
    /\ buffer = <<>>
    /\ record = NoRecord
    /\ clientSubscriptions = << >>
    /\ subscribedSymbols = {}
    /\ session = [c \in Clients |-> [state |-> "new", awaiting |-> "none"]]
    /\ binanceAdapter = NoAdapter
    /\ store = NoStore
    /\ page = NoPage

book == <<bids, asks, orderIndex, nextOrderId, tradeCount, lastPrice>>
hist == <<placedQty, tradedQty, removedQty, zeroRetQty, dead>>
vars == <<bids, asks, orderIndex, nextOrderId, tradeCount, lastPrice, pc, incoming,
          fillQty, ret, cancelRet, lastOp, arg, trades, placedQty, tradedQty, removedQty,
          zeroRetQty, dead, entry, issuedAtClear, undefined, outside>>

\* every variable of the order book and of its history
inside == <<bids, asks, orderIndex, nextOrderId, tradeCount, lastPrice, pc, incoming,
            fillQty, ret, cancelRet, lastOp, arg, trades, placedQty, tradedQty, removedQty,
            zeroRetQty, dead, entry, issuedAtClear, undefined>>

\* what the Transport Server's code does not touch
beyondTransport == <<inside, generator, publisher, gRunning, codec, others>>

\* what the Generator's code does not touch, the order book apart
beyondGenerator == <<transport, publisher, gRunning, codec, others>>

\* ---- Order (order.hpp) --------------------------------------------------
Order(id, side, price, qty) ==
    [id |-> id, side |-> side, price |-> price, quantity |-> qty]

NoOrder == Order(0, "BID", 0, 0)

\* no add() has been entered since construction, cancel or clear
NoEntry == [bids |-> <<>>, asks |-> <<>>]

isBid(o) == o.side = "BID"

isFilled(o) == o.quantity <= 0

\* mutant: the fill quantity is the second argument (the resting residual)
Min_Second(a, b) == b

\* mutant: the fill quantity is the first argument (the incoming residual)
Min_First(a, b) == a

\* std::min
Min(a, b) == IF b < a THEN b ELSE a

\* ---- ladders: std::map<double, OrderQueue, Compare> ---------------------
\* key order of the two maps: std::greater for bids_, std::less for asks_
KeyBefore(side, a, b) == IF side = "BID" THEN a > b ELSE a < b

\* map::find: position of the level with key p, 0 for end()
FindLevel(levels, p) ==
    IF \E i \in DOMAIN levels : levels[i].price = p
    THEN CHOOSE i \in DOMAIN levels : levels[i].price = p
    ELSE 0

\* map::operator[]: the map with a level for key p, default-constructed if absent
WithLevel(levels, side, p) ==
    IF FindLevel(levels, p) # 0 THEN levels
    ELSE LET k == Cardinality({i \in DOMAIN levels : KeyBefore(side, levels[i].price, p)})
         IN  SubSeq(levels, 1, k) \o <<[price |-> p, queue |-> <<>>]>>
                 \o SubSeq(levels, k + 1, Len(levels))

\* map::erase(iterator) of the level at position i
EraseLevel(levels, i) ==
    SubSeq(levels, 1, i - 1) \o SubSeq(levels, i + 1, Len(levels))

\* all orders of a ladder, level by level, each queue front to back
RECURSIVE Flatten(_)
Flatten(levels) ==
    IF levels = <<>> THEN <<>> ELSE Head(levels).queue \o Flatten(Tail(levels))

Resting == {Flatten(bids)[i] : i \in DOMAIN Flatten(bids)}
               \cup {Flatten(asks)[i] : i \in DOMAIN Flatten(asks)}

RestingIds == {o.id : o \in Resting}

RECURSIVE SumQty(_)
SumQty(q) == IF q = <<>> THEN 0 ELSE Head(q).quantity + SumQty(Tail(q))

\* ---- read-only getters ---------------------------------------------------
\* bids_.rbegin()->first: the key of the last level of bids_
getBestBid == IF bids = <<>> THEN 0 ELSE bids[Len(bids)].price

\* asks_.begin()->first: the key of the first level of asks_
getBestAsk == IF asks = <<>> THEN 0 ELSE asks[1].price

getTradeCount == tradeCount

getOrderCount == nextOrderId - 1

\* ---- construction -------------------------------------------------------
Init ==
    /\ bids = <<>>
    /\ asks = <<>>
    /\ orderIndex = {}
    /\ nextOrderId = 1
    /\ tradeCount = 0
    /\ lastPrice = 0
    /\ pc = "idle"
    /\ incoming = NoOrder
    /\ fillQty = 0
    /\ ret = 0
    /\ cancelRet = FALSE
    /\ lastOp = "none"
    /\ arg = <<>>
    /\ trades = <<>>
    /\ placedQty = 0
    /\ tradedQty = 0
    /\ removedQty = 0
    /\ zeroRetQty = 0
    /\ dead = {}
    /\ entry = NoEntry
    /\ issuedAtClear = 0
    /\ undefined = FALSE
    /\ InitOutside

\* ---- addOrder: entry ----------------------------------------------------
\* Order order(nextOrderId_++, side, price, quantity, now); match(order);
AddOrderEntry(side, price, quantity) ==
    /\ UNCHANGED issuedAtClear
    /\ pc = "idle"
    /\ incoming' = Order(nextOrderId, side, price, quantity)
    /\ nextOrderId' = nextOrderId + 1
    /\ pc' = "match"
    /\ lastOp' = "add"
    /\ arg' = <<side, price, quantity>>
    /\ ret' = 0
    /\ cancelRet' = FALSE
    /\ trades' = <<>>
    /\ placedQty' = placedQty + quantity
    /\ entry' = [bids |-> bids, asks |-> asks]
    /\ UNCHANGED <<bids, asks, orderIndex, tradeCount, lastPrice, fillQty,
                   tradedQty, removedQty, zeroRetQty, dead, undefined>>

\* addOrder called on a book that nothing else is using
AddOrder(side, price, quantity) ==
    /\ AddOrderEntry(side, price, quantity)
    /\ UNCHANGED outside

\* ---- matching -----------------------------------------------------------
\* mutant: the price test of the bid loop never breaks
BidBreaks_Never(bid, askPrice) == FALSE

\* mutant: a bid priced at the best ask does not trade
BidBreaks_Inclusive(bid, askPrice) == bid.price <= askPrice

\* if (bid.price < askPrice) break;
BidBreaks(bid, askPrice) == bid.price < askPrice

\* mutant: an ask priced at the best bid does not trade
AskBreaks_Inclusive(ask, bidPrice) == ask.price >= bidPrice

\* if (ask.price > bidPrice) break;
AskBreaks(ask, bidPrice) == ask.price > bidPrice

\* mutant: the loop binds the last level of the opposite map
Front_Last(levels) == Len(levels)

\* asks_.begin() / bids_.begin(): the position of the level the matching loop binds
Front(levels) == 1

FrontLevel(levels) == levels[Front(levels)]

\* mutant: the trade prints at the incoming order's price
FillPrice_Taker(taker, maker) == taker.price

\* double fillPrice = ask.price / bid.price: the resting order's price
FillPrice(taker, maker) == maker.price

\* the loop conditions of matchBid up to the inner loop
BidCanMatch ==
    /\ ~isFilled(incoming)
    /\ asks # <<>>
    /\ ~BidBreaks(incoming, FrontLevel(asks).price)

\* the loop conditions of matchAsk up to the inner loop
AskCanMatch ==
    /\ ~isFilled(incoming)
    /\ bids # <<>>
    /\ ~AskBreaks(incoming, FrontLevel(bids).price)

\* mutant: the trade counter is not incremented
executeTrade_NoCount(bidId, askId, price, qty) ==
    /\ lastPrice' = price
    /\ tradeCount' = tradeCount
    /\ trades' = Append(trades, [bidOrderId |-> bidId, askOrderId |-> askId,
                                 price |-> price, quantity |-> qty])
    /\ tradedQty' = tradedQty + qty

\* mutant: the trade callback is not invoked
executeTrade_NoCallback(bidId, askId, price, qty) ==
    /\ lastPrice' = price
    /\ tradeCount' = tradeCount + 1
    /\ trades' = trades
    /\ tradedQty' = tradedQty + qty

\* lastPrice_ = price; tradeCount_++; tradeCallback_(Trade{...});
executeTrade(bidId, askId, price, qty) ==
    /\ lastPrice' = price
    /\ tradeCount' = tradeCount + 1
    /\ trades' = Append(trades, [bidOrderId |-> bidId, askOrderId |-> askId,
                                 price |-> price, quantity |-> qty])
    /\ tradedQty' = tradedQty + qty

\* mutant: a partly filled maker is moved to the back of its queue
FillFront_Requeue(queue, qty) ==
    LET maker == [Head(queue) EXCEPT !.quantity = @ - qty]
    IN  IF isFilled(maker) THEN Tail(queue) ELSE Tail(queue) \o <<maker>>

\* mutant: the maker's quantity is not reduced
FillFront_KeepQty(queue, qty) == queue

\* the queue after `maker.quantity -= fillQty; if (maker.isFilled()) pop_front()`
FillFront(queue, qty) ==
    LET maker == [Head(queue) EXCEPT !.quantity = @ - qty]
    IN  IF isFilled(maker) THEN Tail(queue) ELSE <<maker>> \o Tail(queue)

\* mutant: an emptied level is kept
EraseIfEmpty_Keep(levels, k) == levels

\* if (queue.empty()) levels.erase(levels.begin());
EraseIfEmpty(levels, k) ==
    IF levels[k].queue = <<>> THEN EraseLevel(levels, k) ELSE levels

\* the ladder after one fill of qty against the front order of the bound level
FillLevel(levels, qty) ==
    LET k == Front(levels)
    IN  EraseIfEmpty([levels EXCEPT ![k].queue = FillFront(@, qty)], k)

\* mutant: a filled maker stays in the index
FillIndex_Keep(index, maker, qty) == index

\* the index after `if (maker.isFilled()) orderIndex_.erase(maker.id)`
FillIndex(index, maker, qty) ==
    IF isFilled([maker EXCEPT !.quantity = @ - qty]) THEN index \ {maker.id} ELSE index

\* matchBid up to and including the call of executeTrade (an empty bound level
\* skips the inner loop and is erased)
MatchBidTrade ==
    /\ UNCHANGED <<issuedAtClear, outside>>
    /\ pc = "match"
    /\ isBid(incoming)
    /\ BidCanMatch
    /\ IF FrontLevel(asks).queue = <<>>
       THEN /\ asks' = EraseIfEmpty(asks, Front(asks))
            /\ UNCHANGED <<bids, orderIndex, nextOrderId, tradeCount, lastPrice, pc,
                           incoming, fillQty, ret, cancelRet, lastOp, arg, trades, hist, entry,
                           undefined>>
       ELSE LET ask == Head(FrontLevel(asks).queue)
                qty == Min(incoming.quantity, ask.quantity)
            IN  /\ executeTrade(incoming.id, ask.id, FillPrice(incoming, ask), qty)
                /\ fillQty' = qty
                /\ pc' = "trade"
                /\ UNCHANGED <<bids, asks, orderIndex, nextOrderId, incoming, ret, cancelRet,
                               lastOp, arg, placedQty, removedQty, zeroRetQty, dead,
                               entry, undefined>>

\* matchBid after executeTrade returned: both quantities, the index, the queue, the level
MatchBidFill ==
    /\ UNCHANGED <<issuedAtClear, outside>>
    /\ pc = "trade"
    /\ isBid(incoming)
    /\ LET ask == Head(FrontLevel(asks).queue)
       IN  /\ incoming' = [incoming EXCEPT !.quantity = @ - fillQty]
           /\ orderIndex' = FillIndex(orderIndex, ask, fillQty)
           /\ asks' = FillLevel(asks, fillQty)
           /\ dead' = IF ask.quantity - fillQty <= 0 THEN dead \cup {ask.id} ELSE dead
    /\ pc' = "match"
    /\ UNCHANGED <<bids, nextOrderId, tradeCount, lastPrice, fillQty, ret, cancelRet, lastOp, arg,
                   trades, placedQty, tradedQty, removedQty, zeroRetQty, entry,
                   undefined>>

\* matchAsk up to and including the call of executeTrade
MatchAskTrade ==
    /\ UNCHANGED <<issuedAtClear, outside>>
    /\ pc = "match"
    /\ ~isBid(incoming)
    /\ AskCanMatch
    /\ IF FrontLevel(bids).queue = <<>>
       THEN /\ bids' = EraseIfEmpty(bids, Front(bids))
            /\ UNCHANGED <<asks, orderIndex, nextOrderId, tradeCount, lastPrice, pc,
                           incoming, fillQty, ret, cancelRet, lastOp, arg, trades, hist, entry,
                           undefined>>
       ELSE LET bid == Head(FrontLevel(bids).queue)
                qty == Min(incoming.quantity, bid.quantity)
            IN  /\ executeTrade(bid.id, incoming.id, FillPrice(incoming, bid), qty)
                /\ fillQty' = qty
                /\ pc' = "trade"
                /\ UNCHANGED <<bids, asks, orderIndex, nextOrderId, incoming, ret, cancelRet,
                               lastOp, arg, placedQty, removedQty, zeroRetQty, dead,
                               entry, undefined>>

\* matchAsk after executeTrade returned
MatchAskFill ==
    /\ UNCHANGED <<issuedAtClear, outside>>
    /\ pc = "trade"
    /\ ~isBid(incoming)
    /\ LET bid == Head(FrontLevel(bids).queue)
       IN  /\ incoming' = [incoming EXCEPT !.quantity = @ - fillQty]
           /\ orderIndex' = FillIndex(orderIndex, bid, fillQty)
           /\ bids' = FillLevel(bids, fillQty)
           /\ dead' = IF bid.quantity - fillQty <= 0 THEN dead \cup {bid.id} ELSE dead
    /\ pc' = "match"
    /\ UNCHANGED <<asks, nextOrderId, tradeCount, lastPrice, fillQty, ret, cancelRet, lastOp, arg,
                   trades, placedQty, tradedQty, removedQty, zeroRetQty, entry,
                   undefined>>

\* ---- addOrder: after match() -------------------------------------------
\* auto& queue = levels[order.price]; queue.push_back(order);
PushBack(queue, order) == Append(queue, order)

addToBookLevels(levels, order) ==
    LET ls == WithLevel(levels, order.side, order.price)
        k  == FindLevel(ls, order.price)
    IN  [ls EXCEPT ![k].queue = PushBack(@, order)]

\* mutant: the id is returned also for a filled order
AddResult_Id(order) == order.id

\* return order.id / return 0
AddResult(order) == IF ~isFilled(order) THEN order.id ELSE 0

\* if (!order.isFilled()) { addToBook(order); return order.id; } return 0;
AddOrderReturn ==
    /\ UNCHANGED <<issuedAtClear, outside>>
    /\ pc = "match"
    /\ IF isBid(incoming) THEN ~BidCanMatch ELSE ~AskCanMatch
    /\ IF ~isFilled(incoming)
       THEN /\ bids' = IF isBid(incoming) THEN addToBookLevels(bids, incoming) ELSE bids
            /\ asks' = IF isBid(incoming) THEN asks ELSE addToBookLevels(asks, incoming)
            /\ orderIndex' = orderIndex \cup {incoming.id}
       ELSE UNCHANGED <<bids, asks, orderIndex>>
    /\ ret' = AddResult(incoming)
    /\ UNCHANGED cancelRet
    /\ zeroRetQty' = IF AddResult(incoming) = 0 THEN zeroRetQty + arg[3] ELSE zeroRetQty
    /\ pc' = "idle"
    /\ incoming' = NoOrder
    /\ fillQty' = 0
    /\ UNCHANGED <<nextOrderId, tradeCount, lastPrice, lastOp, arg, trades, placedQty,
                   tradedQty, removedQty, dead, entry, undefined>>

\* ---- cancelOrder --------------------------------------------------------
\* *(it->second.iterator): the node the stored iterator denotes
Deref(orderId) == CHOOSE o \in Resting : o.id = orderId

\* mutant: the front of the queue is erased instead of the node
EraseNode_Front(queue, orderId) == Tail(queue)

\* list::erase(iterator): the queue without the node of orderId
EraseNode(queue, orderId) == SelectSeq(queue, LAMBDA o : o.id # orderId)

\* levelIt = levels.find(order.price); erase the node; erase the level if empty
CancelLevels(levels, order) ==
    LET k == FindLevel(levels, order.price)
    IN  IF k # 0
        THEN EraseIfEmpty([levels EXCEPT ![k].queue = EraseNode(@, order.id)], k)
        ELSE levels

CancelOrder(orderId) ==
    /\ UNCHANGED <<issuedAtClear, outside>>
    /\ pc = "idle"
    /\ lastOp' = "cancel"
    /\ arg' = <<orderId>>
    /\ ret' = 0
    /\ IF orderId \notin orderIndex
       THEN /\ cancelRet' = FALSE
            /\ UNCHANGED <<bids, asks, orderIndex, removedQty, dead, undefined>>
       ELSE IF orderId \notin RestingIds
       THEN \* the iterator is dangling: undefined behaviour
            /\ undefined' = TRUE
            /\ cancelRet' \in BOOLEAN
            /\ orderIndex' \in {orderIndex, orderIndex \ {orderId}}
            /\ UNCHANGED <<bids, asks, removedQty, dead>>
       ELSE LET order == Deref(orderId)
            IN  /\ bids' = IF isBid(order) THEN CancelLevels(bids, order) ELSE bids
                /\ asks' = IF isBid(order) THEN asks ELSE CancelLevels(asks, order)
                /\ orderIndex' = orderIndex \ {orderId}
                /\ cancelRet' = TRUE
                /\ removedQty' = removedQty + order.quantity
                /\ dead' = dead \cup {orderId}
                /\ UNCHANGED undefined
    /\ trades' = <<>>
    /\ entry' = NoEntry
    /\ UNCHANGED <<nextOrderId, tradeCount, lastPrice, pc, incoming, fillQty,
                   placedQty, tradedQty, zeroRetQty>>

\* mutant: clear() also restarts the id allocator
Clear_ResetIds ==
    /\ pc = "idle"
    /\ issuedAtClear' = nextOrderId - 1
    /\ UNCHANGED outside
    /\ bids' = <<>>
    /\ asks' = <<>>
    /\ orderIndex' = {}
    /\ tradeCount' = 0
    /\ nextOrderId' = 1
    /\ lastOp' = "clear"
    /\ arg' = <<>>
    /\ ret' = 0
    /\ cancelRet' = FALSE
    /\ removedQty' = removedQty + SumQty(Flatten(bids)) + SumQty(Flatten(asks))
    /\ trades' = <<>>
    /\ entry' = NoEntry
    /\ UNCHANGED <<lastPrice, pc, incoming, fillQty, placedQty,
                   tradedQty, zeroRetQty, dead, undefined>>

\* ---- clear --------------------------------------------------------------
Clear ==
    /\ pc = "idle"
    /\ issuedAtClear' = nextOrderId - 1
    /\ UNCHANGED outside
    /\ bids' = <<>>
    /\ asks' = <<>>
    /\ orderIndex' = {}
    /\ tradeCount' = 0
    /\ lastOp' = "clear"
    /\ arg' = <<>>
    /\ ret' = 0
    /\ cancelRet' = FALSE
    /\ removedQty' = removedQty + SumQty(Flatten(bids)) + SumQty(Flatten(asks))
    /\ trades' = <<>>
    /\ entry' = NoEntry
    /\ UNCHANGED <<nextOrderId, lastPrice, pc, incoming, fillQty, placedQty,
                   tradedQty, zeroRetQty, dead, undefined>>

\* ---- the book driven by one caller --------------------------------------
Ids == 1..(MaxOrders + 1)

Next ==
    \/ /\ nextOrderId <= MaxOrders
       /\ \E side \in Sides, price \in Prices, quantity \in Quantities :
              AddOrder(side, price, quantity)
    \/ MatchBidTrade
    \/ MatchBidFill
    \/ MatchAskTrade
    \/ MatchAskFill
    \/ AddOrderReturn
    \/ \E orderId \in Ids : CancelOrder(orderId)
    \/ Clear

Spec == Init /\ [][Next]_vars

TypeOK ==
    /\ pc \in {"idle", "match", "trade"}
    /\ nextOrderId \in 1..(MaxOrders + 1)
    /\ orderIndex \subseteq Ids
    /\ undefined \in BOOLEAN
\* ---- vocabulary of the properties ---------------------------------------
Idle == pc = "idle"

BidPrices == {bids[i].price : i \in DOMAIN bids}

AskPrices == {asks[i].price : i \in DOMAIN asks}

\* the last public operation was an add and it has returned
AddReturned == Idle /\ lastOp = "add"

\* the trade callback of the latest fill is running
InTrade == pc = "trade"

TakerIsBid == arg[1] = "BID"

OppositePrices == IF TakerIsBid THEN AskPrices ELSE BidPrices

\* price a is at least as good for the taker as price b
NotWorse(a, b) == IF TakerIsBid THEN a <= b ELSE a >= b

MakerId(t) == IF TakerIsBid THEN t.askOrderId ELSE t.bidOrderId

TakerId(t) == IF TakerIsBid THEN t.bidOrderId ELSE t.askOrderId

\* the queue of the level with key p on the given side, <<>> if there is none
QueueAt(side, p) ==
    LET levels == IF side = "BID" THEN bids ELSE asks
    IN  IF \E i \in DOMAIN levels : levels[i].price = p
        THEN levels[CHOOSE i \in DOMAIN levels : levels[i].price = p].queue
        ELSE <<>>

Occurrences(id) ==
    Cardinality({i \in DOMAIN Flatten(bids) : Flatten(bids)[i].id = id})
        + Cardinality({i \in DOMAIN Flatten(asks) : Flatten(asks)[i].id = id})

RECURSIVE SumTrades(_)
SumTrades(ts) == IF ts = <<>> THEN 0 ELSE Head(ts).quantity + SumTrades(Tail(ts))

RestingQty == SumQty(Flatten(bids)) + SumQty(Flatten(asks))

\* ---- C1 ------------------------------------------------------------------
\* C1: after every add and cancel has returned the book is not crossed: every
\* bid level price is strictly below every ask level price, and bestAsk() = 0
\* or bestBid() = 0 or bestBid() < bestAsk().
C1_Uncrossed ==
    Idle => /\ \A b \in BidPrices, a \in AskPrices : b < a
            /\ (getBestAsk = 0 \/ getBestBid = 0 \/ getBestBid < getBestAsk)

\* an add that traded has returned and left both ladders populated
C1_Witness ==
    AddReturned /\ trades # <<>> /\ bids # <<>> /\ asks # <<>>

\* ---- C3 ------------------------------------------------------------------
\* C3: within one add the opposite levels are consumed best price first: each
\* trade is at the best price then present on the opposite ladder, the trade
\* prices of one add never improve, and once the add has returned with a
\* residual every remaining opposite level lies beyond the taker's limit.
C3_BestPriceFirst ==
    /\ (InTrade =>
            \A p \in OppositePrices : NotWorse(trades[Len(trades)].price, p))
    /\ (lastOp = "add" =>
            \A i, j \in DOMAIN trades :
                i < j => NotWorse(trades[i].price, trades[j].price))
    /\ (AddReturned /\ ret # 0 =>
            \A p \in OppositePrices : ~NotWorse(p, arg[2]))

\* one add swept two opposite levels
C3_Witness ==
    /\ lastOp = "add"
    /\ Len(trades) >= 2
    /\ trades[1].price # trades[2].price

\* ---- C4 ------------------------------------------------------------------
\* the resting order the running trade is against
TradeMaker == CHOOSE o \in Resting : o.id = MakerId(trades[Len(trades)])

C4_TradeTerms ==
    InTrade =>
        LET t == trades[Len(trades)]
        IN  /\ MakerId(t) \in RestingIds
            /\ TakerId(t) = incoming.id
            /\ t.price = TradeMaker.price
            /\ t.quantity <= incoming.quantity
            /\ t.quantity <= TradeMaker.quantity
            /\ t.quantity \in {incoming.quantity, TradeMaker.quantity}
            /\ NotWorse(t.price, incoming.price)

\* the taker is unfilled and its limit equals the best opposite price
C4_AtLimit ==
    /\ pc = "match"
    /\ ~isFilled(incoming)
    /\ OppositePrices # {}
    /\ incoming.price \in OppositePrices
    /\ \A p \in OppositePrices : NotWorse(incoming.price, p)

\* C4: every trade prints at the resting order's price for min(taker residual,
\* maker residual), never at a price worse than the taker's limit, and a taker
\* whose limit equals the best opposite price does trade.
C4_MakerPrice ==
    [][C4_TradeTerms' /\ (C4_AtLimit => pc' = "trade")]_vars

\* a trade below the limit of a bid followed by a trade exactly at its limit
C4_Witness ==
    /\ InTrade
    /\ TakerIsBid
    /\ Len(trades) = 2
    /\ trades[1].price < incoming.price
    /\ trades[2].price = incoming.price
\* ---- C2 ------------------------------------------------------------------
\* every queue holds its orders in arrival order (ids are allocated in arrival
\* order)
ArrivalOrder ==
    \A side \in Sides, p \in Prices :
        \A i, j \in DOMAIN QueueAt(side, p) :
            i < j => QueueAt(side, p)[i].id < QueueAt(side, p)[j].id

\* the step is the bookkeeping of one fill
FillStep == pc = "trade" /\ pc' = "match"

\* C2: within one level resting orders are filled in arrival order: the order
\* a fill reduces is the maker of the trade and the head of its level's queue,
\* no order that arrived earlier at that price still rests, a maker left with
\* a residual is still the head of its queue, and no other resting order
\* changes.
C2_Fifo ==
    [][/\ ArrivalOrder'
       /\ (FillStep =>
            /\ \E o \in Resting : o \notin Resting'
            /\ \A o \in Resting : o \notin Resting' =>
                /\ o.id = MakerId(trades[Len(trades)])
                /\ Head(QueueAt(o.side, o.price)) = o
                /\ ~\E e \in Resting :
                       e.side = o.side /\ e.price = o.price /\ e.id < o.id
                /\ \A n \in Resting' : n.id = o.id =>
                       /\ n.quantity = o.quantity - trades[Len(trades)].quantity
                       /\ n.quantity > 0
                       /\ Head(QueueAt(n.side, n.price)') = n
                /\ Resting' \subseteq
                       (Resting \ {o}) \cup {[o EXCEPT !.quantity = q] : q \in Quantities})
      ]_vars

\* the first order of a level was filled completely and the second one partly,
\* and the second one is now the head of that level
C2_Witness ==
    /\ lastOp = "add"
    /\ Len(trades) = 2
    /\ trades[1].price = trades[2].price
    /\ MakerId(trades[1]) < MakerId(trades[2])
    /\ MakerId(trades[1]) \notin RestingIds
    /\ MakerId(trades[2]) \in RestingIds

\* ---- C5 ------------------------------------------------------------------
\* C5: add returns 0 exactly when the incoming order was filled completely,
\* and then it does not rest and is not indexed (a maker filled by it is gone
\* as well); otherwise it returns the freshly allocated id, and the order
\* rests with its residual at the tail of the queue at its limit price on its
\* own side and nowhere else, and is indexed.
C5_AddResult ==
    AddReturned =>
        LET id       == nextOrderId - 1
            residual == arg[3] - SumTrades(trades)
            own      == QueueAt(arg[1], arg[2])
        IN  /\ (ret = 0) <=> (residual = 0)
            /\ ret = 0 => id \notin RestingIds /\ id \notin orderIndex
            /\ \A i \in DOMAIN trades :
                   MakerId(trades[i]) \in orderIndex <=> MakerId(trades[i]) \in RestingIds
            /\ ret # 0 =>
                   /\ ret = id
                   /\ id # 0
                   /\ own # <<>>
                   /\ own[Len(own)] = Order(id, arg[1], arg[2], residual)
                   /\ Occurrences(id) = 1
                   /\ id \in orderIndex

\* a partly filled order came to rest
C5_Witness ==
    AddReturned /\ ret # 0 /\ trades # <<>>

\* ---- C6 ------------------------------------------------------------------
\* the greatest element of a non-empty set of prices
MaxOf(S) == CHOOSE x \in S : \A y \in S : y <= x

MinOf(S) == CHOOSE x \in S : \A y \in S : x <= y

\* C6: bestBid() is the highest bid level price and bestAsk() the lowest ask
\* level price, each 0 when its side is empty.
C6_BestPrices ==
    Idle => /\ getBestBid = (IF BidPrices = {} THEN 0 ELSE MaxOf(BidPrices))
            /\ getBestAsk = (IF AskPrices = {} THEN 0 ELSE MinOf(AskPrices))

\* ---- C7 ------------------------------------------------------------------
IndexAgrees ==
    LET all == Flatten(bids) \o Flatten(asks)
    IN  /\ ~undefined
        /\ \A i, j \in DOMAIN all : all[i].id = all[j].id => i = j
        /\ orderIndex = {all[i].id : i \in DOMAIN all}
        /\ \A i \in DOMAIN bids : \A k \in DOMAIN bids[i].queue :
               bids[i].queue[k].side = "BID" /\ bids[i].queue[k].price = bids[i].price
        /\ \A i \in DOMAIN asks : \A k \in DOMAIN asks[i].queue :
               asks[i].queue[k].side = "ASK" /\ asks[i].queue[k].price = asks[i].price
        /\ \A i \in DOMAIN all : all[i].id \notin dead
        /\ dead \cap orderIndex = {}

\* the step is one complete call of cancelOrder
CancelStep == pc = "idle" /\ pc' = "idle" /\ lastOp' = "cancel"

\* the step hands a trade to executeTrade
TradeStep == pc = "match" /\ pc' = "trade"

\* C7: after every add and cancel an id is indexed iff exactly one order with
\* that id rests, in a queue of its own side and price; cancelled and filled
\* ids are neither indexed nor resting and never trade again; cancel returns
\* true exactly for the ids that rest.
C7_IndexConsistent ==
    [][/\ (Idle' => IndexAgrees')
       /\ (CancelStep => (cancelRet' <=> arg'[1] \in RestingIds))
       /\ (TradeStep =>
              {trades'[Len(trades')].bidOrderId, trades'[Len(trades')].askOrderId}
                  \cap dead = {})
      ]_vars

\* cancel of an id that was filled or cancelled before returned false while
\* other orders rest
C7_Witness ==
    /\ Idle
    /\ lastOp = "cancel"
    /\ cancelRet = FALSE
    /\ arg[1] \in dead
    /\ orderIndex # {}
\* ---- C8 ------------------------------------------------------------------
\* the sequence q without the orders of the given id
Without(q, id) == SelectSeq(q, LAMBDA o : o.id # id)

\* the ladder of a side before and after the step differ by exactly the order id
OnlyRemoved(side, id) ==
    LET before == IF side = "BID" THEN bids ELSE asks
        after  == IF side = "BID" THEN bids' ELSE asks'
    IN  /\ Flatten(after) = Without(Flatten(before), id)
        /\ \A i \in DOMAIN after :
               /\ after[i].queue # <<>>
               /\ after[i].queue = Without(QueueAt(side, after[i].price), id)
        /\ \A i, j \in DOMAIN after :
               i < j => KeyBefore(side, after[i].price, after[j].price)

\* C8: cancel of a resting id removes exactly that order (and its level if it
\* was alone) and changes no other order's quantity or queue position; cancel
\* of an id that is not indexed returns false and changes neither ladders,
\* index, counters nor the last traded price, also right after a successful
\* cancel of the same id.
C8_CancelFrame ==
    [][CancelStep =>
        LET id == arg'[1]
        IN  /\ UNCHANGED <<nextOrderId, tradeCount, lastPrice>>
            /\ trades' = <<>>
            /\ id \in orderIndex =>
                   /\ cancelRet' = TRUE
                   /\ OnlyRemoved("BID", id)
                   /\ OnlyRemoved("ASK", id)
                   /\ orderIndex' = orderIndex \ {id}
                   /\ RestingIds' = RestingIds \ {id}
            /\ id \notin orderIndex =>
                   /\ cancelRet' = FALSE
                   /\ UNCHANGED book
            /\ (lastOp = "cancel" /\ cancelRet = TRUE /\ arg' = arg) =>
                   /\ cancelRet' = FALSE
                   /\ UNCHANGED book
      ]_vars

\* an order between two others of its queue was cancelled
C8_Witness ==
    /\ Idle
    /\ lastOp = "cancel"
    /\ cancelRet = TRUE
    /\ \E side \in Sides, p \in Prices :
           /\ Len(QueueAt(side, p)) = 2
           /\ QueueAt(side, p)[1].id < arg[1]
           /\ arg[1] < QueueAt(side, p)[2].id

\* ---- C9 ------------------------------------------------------------------
\* C9: after every add, cancel and clear has returned no ladder holds a level
\* with an empty queue.
C9_NoEmptyLevel ==
    Idle => /\ \A i \in DOMAIN bids : bids[i].queue # <<>>
            /\ \A i \in DOMAIN asks : asks[i].queue # <<>>

\* a bid emptied the only ask level and the level is gone
C9_Witness ==
    /\ AddReturned
    /\ TakerIsBid
    /\ trades # <<>>
    /\ asks = <<>>
    /\ bids # <<>>

\* ---- C10 -----------------------------------------------------------------
\* C10 as stated: placed = 2 x traded + resting + quantity of the adds that
\* returned 0.
C10_Original ==
    Idle => placedQty = 2 * tradedQty + RestingQty + zeroRetQty

\* C10 amended: after every add, cancel and clear, placed = 2 x traded +
\* resting + residual quantity removed by cancel or clear.
C10_MassConservation ==
    Idle => placedQty = 2 * tradedQty + RestingQty + removedQty

\* trades, a cancel or clear of a residual, an add that returned 0 and resting
\* orders all occurred
C10_Witness ==
    /\ Idle
    /\ tradedQty > 0
    /\ removedQty > 0
    /\ zeroRetQty > 0
    /\ RestingQty > 0
\* ---- C11 -----------------------------------------------------------------
\* C11 as stated: after every add, cancel and clear the resting quantity is
\* the quantity placed minus the quantity filled, each trade counted for its
\* bid and for its ask.
C11_Original ==
    Idle => RestingQty = placedQty - 2 * tradedQty

\* C11 amended: after every add, cancel and clear the resting quantity is the
\* quantity placed minus the quantity filled (each trade counted twice) minus
\* the residual quantity that cancel and clear took out of the book.
C11_RestingBalance ==
    Idle => RestingQty = placedQty - (tradedQty + tradedQty) - removedQty

\* a clear dropped resting quantity after a trade, and an order rests again
C11_Witness ==
    /\ Idle
    /\ lastOp = "add"
    /\ tradedQty > 0
    /\ removedQty > 0
    /\ tradeCount = 0
    /\ RestingQty > 0
\* ---- C12 -----------------------------------------------------------------
\* the step enters addOrder
EntryStep == pc = "idle" /\ pc' = "match"

\* C12: over adds and cancels tradeCount() and orderCount() never decrease;
\* an add raises orderCount() by exactly 1 on entry, whatever it returns, and
\* tradeCount() by exactly 1 with every trade it emits; cancel changes
\* neither counter.
C12_Counters ==
    [][lastOp' # "clear" =>
        /\ getTradeCount' >= getTradeCount
        /\ getOrderCount' >= getOrderCount
        /\ EntryStep =>
               /\ getOrderCount' = getOrderCount + 1
               /\ getTradeCount' = getTradeCount
        /\ pc # "idle" =>
               /\ getOrderCount' = getOrderCount
               /\ getTradeCount' - getTradeCount = Len(trades') - Len(trades)
               /\ getTradeCount' - getTradeCount \in {0, 1}
               /\ (getTradeCount' = getTradeCount + 1) <=> (tradedQty' > tradedQty)
        /\ CancelStep =>
               /\ getOrderCount' = getOrderCount
               /\ getTradeCount' = getTradeCount
      ]_vars

\* an add that emitted two trades returned 0 and both counters have moved
C12_Witness ==
    /\ AddReturned
    /\ ret = 0
    /\ Len(trades) = 2
    /\ getTradeCount >= 2
    /\ getOrderCount = 3
\* ---- the book driven with arbitrary arguments -----------------------------
\* addOrder has no argument check: any double is accepted as price and quantity
AnyPrices == (0 - 1)..MaxPrice

AnyQuantities == (0 - 1)..MaxQty

NextAnyInput ==
    \/ /\ nextOrderId <= MaxOrders
       /\ \E side \in Sides, price \in AnyPrices, quantity \in AnyQuantities :
              AddOrder(side, price, quantity)
    \/ MatchBidTrade
    \/ MatchBidFill
    \/ MatchAskTrade
    \/ MatchAskFill
    \/ AddOrderReturn
    \/ \E orderId \in Ids : CancelOrder(orderId)
    \/ Clear

SpecAnyInput == Init /\ [][NextAnyInput]_vars

\* ---- C13 -----------------------------------------------------------------
\* the arguments of the add in progress or last returned are not both positive
InvalidAdd == lastOp = "add" /\ (arg[2] <= 0 \/ arg[3] <= 0)

\* C13: an add with price <= 0 or quantity <= 0 is rejected and changes
\* nothing: no step of it changes ladders, index, the id allocator
\* (orderCount()), tradeCount() or the last traded price, and it emits no
\* trade.
C13_Rejects ==
    [][InvalidAdd' => UNCHANGED book /\ trades' = <<>>]_vars
\* ---- C14 -----------------------------------------------------------------
\* quantity the add in progress has taken out of its incoming order so far
TakenSoFar == arg[3] - incoming.quantity

\* the add in progress faces no opposite level within its limit
NoCross == \A p \in OppositePrices : ~NotWorse(p, incoming.price)

\* C14: the trades of one add reach the callback one per fill, in the order of
\* the fills and before the add returns: each callback runs after the fills
\* of all earlier callbacks and before its own fill, a callback is delivered
\* only by a step of an add in progress, every fill follows its own callback,
\* and cancel and an add that does not cross deliver none.
C14_SynchronousCallbacks ==
    [][/\ (pc' = "match" => TakenSoFar' = SumTrades(trades'))
       /\ (pc' = "trade" =>
              /\ trades' # <<>>
              /\ TakenSoFar' = SumTrades(trades') - trades'[Len(trades')].quantity)
       /\ (trades' # trades /\ trades' # <<>> =>
              /\ TradeStep
              /\ trades' = Append(trades, trades'[Len(trades')]))
       /\ (FillStep =>
              /\ trades' = trades
              /\ RestingQty - RestingQty' = trades[Len(trades)].quantity)
       /\ (pc = "match" /\ pc' = "idle" => trades' = trades)
       /\ (CancelStep => trades' = <<>>)
       /\ (pc = "match" /\ trades = <<>> /\ NoCross => pc' = "idle" /\ trades' = <<>>)
      ]_vars

\* the second callback of an add is running: the first fill is done, the
\* second is not
C14_Witness ==
    /\ InTrade
    /\ Len(trades) = 2
    /\ TakenSoFar = trades[1].quantity
\* ---- C15 -----------------------------------------------------------------
\* the opposite ladder as the last add found it, and as it is now
OppositeAtEntry == IF TakerIsBid THEN entry.asks ELSE entry.bids

OppositeNow == IF TakerIsBid THEN asks ELSE bids

\* the levels the add found within its limit, and the levels beyond it
AdmissibleAtEntry == SelectSeq(OppositeAtEntry, LAMBDA l : NotWorse(l.price, arg[2]))

BeyondAtEntry == SelectSeq(OppositeAtEntry, LAMBDA l : ~NotWorse(l.price, arg[2]))

AdmissibleQty == SumQty(Flatten(AdmissibleAtEntry))

AdmissibleIds ==
    {Flatten(AdmissibleAtEntry)[i].id : i \in DOMAIN Flatten(AdmissibleAtEntry)}

\* C15: an add whose quantity equals the quantity resting on the opposite
\* side within its limit removes exactly those levels and their ids from the
\* index, leaves the levels beyond the limit as they were and returns 0; with
\* a larger quantity the same levels are swept and the excess rests at the
\* add's own limit on its own side under a non-zero id.
C15_FullSweep ==
    AddReturned =>
        /\ arg[3] = AdmissibleQty =>
               /\ OppositeNow = BeyondAtEntry
               /\ AdmissibleIds \cap orderIndex = {}
               /\ AdmissibleIds \cap RestingIds = {}
               /\ ret = 0
               /\ (nextOrderId - 1) \notin RestingIds
        /\ arg[3] > AdmissibleQty =>
               /\ OppositeNow = BeyondAtEntry
               /\ AdmissibleIds \cap orderIndex = {}
               /\ AdmissibleIds \cap RestingIds = {}
               /\ ret # 0
               /\ ret = nextOrderId - 1
               /\ QueueAt(arg[1], arg[2]) # <<>>
               /\ QueueAt(arg[1], arg[2])[Len(QueueAt(arg[1], arg[2]))]
                      = Order(ret, arg[1], arg[2], arg[3] - AdmissibleQty)

\* an add swept exactly the quantity within its limit and a level beyond the
\* limit is still there
C15_Witness ==
    /\ AddReturned
    /\ arg[3] = AdmissibleQty
    /\ BeyondAtEntry # <<>>
    /\ ret = 0
\* ---- C16 -----------------------------------------------------------------
OppositeBest == IF TakerIsBid THEN getBestAsk ELSE getBestBid

\* the add being matched has fired no trade and no opposite level is within
\* its limit
NonCrossing == pc = "match" /\ trades = <<>> /\ NoCross

\* C16: an add that does not cross returns without touching the opposite
\* ladder, the opposite best price, tradeCount or the last traded price.
C16_RestingNeutral ==
    [][/\ EntryStep => /\ bids' = bids
                       /\ asks' = asks
                       /\ tradeCount' = tradeCount
                       /\ lastPrice' = lastPrice
       /\ NonCrossing => /\ pc' = "idle"
                         /\ OppositeNow' = OppositeNow
                         /\ OppositeNow' = OppositeAtEntry'
                         /\ OppositeBest' = OppositeBest
                         /\ tradeCount' = tradeCount
                         /\ lastPrice' = lastPrice
                         /\ trades' = <<>>]_vars

\* a non-crossing add has rested opposite a populated ladder, after trades
C16_Witness ==
    /\ AddReturned
    /\ trades = <<>>
    /\ ret # 0
    /\ OppositeNow # <<>>
    /\ tradeCount > 0
    /\ lastPrice > 0
\* ---- scenario driver ------------------------------------------------------
\* the four adds that form the uncrossed book: bids 100/1 and 99/2, asks
\* 101/1 and 102/3
ScenarioScript ==
    << <<"BID", 100, 1>>, <<"BID", 99, 2>>, <<"ASK", 101, 1>>, <<"ASK", 102, 3>> >>

\* number of free adds after the scripted ones
ScenarioOrders == 1

ScenarioPrices == {ScenarioScript[i][2] : i \in DOMAIN ScenarioScript}

ScenarioQuantities == {ScenarioScript[i][3] : i \in DOMAIN ScenarioScript}

ScenarioIds == 1..(Len(ScenarioScript) + ScenarioOrders + 1)

ScenarioFormed == nextOrderId > Len(ScenarioScript)

\* the scripted adds come first, in order; afterwards any add over the
\* prices and quantities of the script
ScenarioInput(side, price, quantity) ==
    IF ScenarioFormed
    THEN nextOrderId <= Len(ScenarioScript) + ScenarioOrders
    ELSE <<side, price, quantity>> = ScenarioScript[nextOrderId]

NextScenario ==
    \/ \E side \in Sides, price \in ScenarioPrices, quantity \in ScenarioQuantities :
           /\ ScenarioInput(side, price, quantity)
           /\ AddOrder(side, price, quantity)
    \/ MatchBidTrade
    \/ MatchBidFill
    \/ MatchAskTrade
    \/ MatchAskFill
    \/ AddOrderReturn
    \/ ScenarioFormed /\ \E orderId \in ScenarioIds : CancelOrder(orderId)
    \/ ScenarioFormed /\ Clear

SpecScenario == Init /\ [][NextScenario]_vars

\* the ladders of the scenario book
ScenarioBook ==
    [bids |-> << [price |-> 100, queue |-> <<Order(1, "BID", 100, 1)>>],
                 [price |-> 99, queue |-> <<Order(2, "BID", 99, 2)>>] >>,
     asks |-> << [price |-> 101, queue |-> <<Order(3, "ASK", 101, 1)>>],
                 [price |-> 102, queue |-> <<Order(4, "ASK", 102, 3)>>] >>]

ScenarioReached == Idle /\ bids = ScenarioBook.bids /\ asks = ScenarioBook.asks
\* ---- C17 -----------------------------------------------------------------
\* return (bid > 0 && ask > 0) ? ask - bid : 0.0;
getSpread ==
    IF getBestBid > 0 /\ getBestAsk > 0 THEN getBestAsk - getBestBid ELSE 0

\* return (bid > 0 && ask > 0) ? (bid + ask) / 2.0 : lastPrice_;
\* the quotient is kept as the pair <<numerator, denominator>>
getMidPrice ==
    IF getBestBid > 0 /\ getBestAsk > 0
    THEN <<getBestBid + getBestAsk, 2>>
    ELSE <<lastPrice, 1>>

SameFraction(f, g) == f[1] * g[2] = g[1] * f[2]

BothPopulated == bids # <<>> /\ asks # <<>>

\* C17: spread() is lowest ask minus highest bid when both sides are
\* populated and 0 otherwise; midPrice() is the mean of the highest bid and
\* the lowest ask when both sides are populated, otherwise the last traded
\* price (0 before the first trade).
C17_SpreadAndMid ==
    Idle =>
        /\ getSpread = (IF BothPopulated
                        THEN MinOf(AskPrices) - MaxOf(BidPrices)
                        ELSE 0)
        /\ SameFraction(getMidPrice,
                        IF BothPopulated
                        THEN <<MaxOf(BidPrices) + MinOf(AskPrices), 2>>
                        ELSE <<lastPrice, 1>>)
        /\ tradedQty = 0 => lastPrice = 0

\* the book of the example: spread 1 and mid 100.5 are the claimed values
C17_Example == ScenarioReached => getSpread = 1 /\ SameFraction(getMidPrice, <<201, 2>>)
\* ---- C18 -----------------------------------------------------------------
\* for (auto it = bids_.rbegin(); it != bids_.rend() && count < n; ++it, ++count)
\*     result.emplace_back(it->first, totalQty);
getTopBids(n) ==
    [count \in 1..Min(n, Len(bids)) |->
        LET it == bids[Len(bids) + 1 - count]
        IN  <<it.price, SumQty(it.queue)>>]

\* for (auto it = asks_.begin(); it != asks_.end() && count < n; ++it, ++count)
getTopAsks(n) ==
    [count \in 1..Min(n, Len(asks)) |->
        LET it == asks[count]
        IN  <<it.price, SumQty(it.queue)>>]

\* book_->getTopBids(10), book_->getTopAsks(10)
TelemetryDepth == 10

\* result lists min(n, levels) levels of the side, best first, each with the
\* summed quantity of its queue, and no level left out is better than one listed
BestToWorst(result, n, side, prices) ==
    /\ Len(result) = Min(n, Cardinality(prices))
    /\ \A i \in DOMAIN result :
           /\ result[i][1] \in prices
           /\ result[i][2] = SumQty(QueueAt(side, result[i][1]))
           /\ \A j \in DOMAIN result :
                  i < j => IF side = "BID"
                           THEN result[i][1] > result[j][1]
                           ELSE result[i][1] < result[j][1]
           /\ \A p \in prices \ {result[k][1] : k \in DOMAIN result} :
                  IF side = "BID" THEN p < result[i][1] ELSE p > result[i][1]

\* C18: topBids(n) and topAsks(n) list min(n, levels) levels best first, bids
\* from the highest price down and asks from the lowest price up, each with
\* the summed residual quantity of its queue; the telemetry record lists them
\* for n = 10.
C18_TopLevels ==
    Idle => \A n \in 0..TelemetryDepth :
                /\ BestToWorst(getTopBids(n), n, "BID", BidPrices)
                /\ BestToWorst(getTopAsks(n), n, "ASK", AskPrices)

\* the ask half of the claim alone
C18_TopAsks ==
    Idle => \A n \in 0..TelemetryDepth :
                BestToWorst(getTopAsks(n), n, "ASK", AskPrices)
\* ---- C19 -----------------------------------------------------------------
ClearStep == lastOp' = "clear"

\* C19: clear() empties both ladders and the index and zeroes tradeCount()
\* but leaves the id allocator alone: right after it bestBid() = bestAsk() = 0
\* and orderCount() is what it was; from then on cancel of an id issued before
\* the clear returns false, and every add is given an id greater than every
\* id issued before it.
C19_ClearKeepsIds ==
    [][/\ ClearStep => /\ bids' = <<>>
                       /\ asks' = <<>>
                       /\ orderIndex' = {}
                       /\ getTradeCount' = 0
                       /\ getBestBid' = 0
                       /\ getBestAsk' = 0
                       /\ getOrderCount' = getOrderCount
                       /\ issuedAtClear' = getOrderCount
       /\ (CancelStep /\ arg'[1] <= issuedAtClear) => /\ cancelRet' = FALSE
                                                      /\ UNCHANGED book
       /\ EntryStep => /\ incoming'.id > getOrderCount
                       /\ incoming'.id > issuedAtClear
                       /\ getOrderCount' = incoming'.id
       /\ (AddReturned' /\ ret' # 0) => ret' > issuedAtClear
       /\ getOrderCount' >= getOrderCount]_vars

\* after a clear of a populated book and a later add that rested, cancel of
\* an id issued before the clear has returned false
C19_Witness ==
    /\ Idle
    /\ lastOp = "cancel"
    /\ cancelRet = FALSE
    /\ arg[1] <= issuedAtClear
    /\ issuedAtClear > 0
    /\ removedQty > 0
    /\ orderIndex # {}
    /\ \A id \in orderIndex : id > issuedAtClear
\* ---- C20 -----------------------------------------------------------------
\* add(BID, 102, 3) has returned and had found the scenario book
SweepReturned ==
    /\ AddReturned
    /\ arg = <<"BID", 102, 3>>
    /\ entry = ScenarioBook

TradeTerms(t) == <<t.price, t.quantity>>

\* C20 as stated: from bids 100/1, 99/2 and asks 101/1, 102/3, add(BID, 102, 3)
\* emits the trades (101, 1) then (102, 2), leaves tradeCount() at 2, the ask
\* ladder empty, the two bid levels as they were and returns 0.
C20_Original ==
    (SweepReturned /\ issuedAtClear = 0) =>
        /\ Len(trades) = 2
        /\ TradeTerms(trades[1]) = <<101, 1>>
        /\ TradeTerms(trades[2]) = <<102, 2>>
        /\ getTradeCount = 2
        /\ asks = <<>>
        /\ bids = ScenarioBook.bids
        /\ ret = 0

\* C20: from bids 100/1, 99/2 and asks 101/1, 102/3, add(BID, 102, 3) emits
\* the trades (101, 1) then (102, 2) and no other, leaves tradeCount() at 2,
\* the two bid levels as they were and returns 0; the ask ladder is left with
\* the level 102 holding the one lot of the second ask that was not taken.
C20_CrossLevelSweep ==
    (SweepReturned /\ issuedAtClear = 0) =>
        /\ Len(trades) = 2
        /\ TradeTerms(trades[1]) = <<101, 1>>
        /\ TradeTerms(trades[2]) = <<102, 2>>
        /\ getTradeCount = 2
        /\ asks = << [price |-> 102, queue |-> <<Order(4, "ASK", 102, 1)>>] >>
        /\ bids = ScenarioBook.bids
        /\ ret = 0

\* the sweep of the scenario has run, straight after the four scripted adds
C20_Witness == SweepReturned /\ getOrderCount = 5 /\ removedQty = 0 /\ issuedAtClear = 0
\* ==== threads and calls ===================================================
Idling(t) == stack[t] = <<>>

At(t, p) == stack[t] # <<>> /\ Head(stack[t]) = p

\* the thread moves on to position p of its innermost call
Goto(t, p) == [stack EXCEPT ![t] = <<p>> \o Tail(@)]

\* the thread, idle or at the line of a call, enters a function at position p
Enter(t, p) == [stack EXCEPT ![t] = <<p>> \o @]

\* the innermost call returns
Leave(t) == [stack EXCEPT ![t] = Tail(@)]

\* the event is entered in the log unless it is there already
Logged(log, event) ==
    IF \E i \in DOMAIN log : log[i] = event THEN log ELSE Append(log, event)

\* ==== WebSocketServer (order.hpp 365-559) ==================================
Bytes == 0..255

\* static_cast<char>((len >> (i * 8)) & 0xFF)
ByteOf(len, i) == IF i = 0 THEN len % 256 ELSE IF i < 4 THEN (len \div (256 ^ i)) % 256 ELSE 0

\* mutant: a length of 126 still takes the one-byte form
createFrame_Short126(message) ==
    LET len == Len(message)
    IN  IF len <= 126
        THEN <<129, len>> \o message
        ELSE IF len <= 65535
        THEN <<129, 126, ByteOf(len, 1), ByteOf(len, 0)>> \o message
        ELSE <<129, 127>> \o [i \in 1..8 |-> ByteOf(len, 8 - i)] \o message

\* std::vector<char> createFrame(const std::string &message)
createFrame(message) ==
    LET len == Len(message)
    IN  IF len <= 125
        THEN <<129, len>> \o message
        ELSE IF len <= 65535
        THEN <<129, 126, ByteOf(len, 1), ByteOf(len, 0)>> \o message
        ELSE <<129, 127>> \o [i \in 1..8 |-> ByteOf(len, 8 - i)] \o message

\* payloads handed to broadcast()
Payloads == {<<72>>, <<72, 105>>}

\* ---- start() -------------------------------------------------------------
\* bool start(): the three steps of socket setup, each of which can fail,
\* then running_ = true and the accept thread; this is start() on a server
\* whose accept thread object is empty
WsStart(t) ==
    /\ At(t, "372")
    /\ acceptThread = "empty"
    /\ \E outcome \in {"socket", "bind", "listen", "ok"} :
           /\ serverSocket' = IF outcome = "socket" THEN "INVALID" ELSE "fd"
           /\ listener' = CASE outcome = "socket" -> listener
                            [] outcome = "ok" -> "open"
                            [] OTHER -> "closed"
           /\ wsRunning' = IF outcome = "ok" THEN TRUE ELSE wsRunning
           /\ acceptThread' = IF outcome = "ok" THEN "joinable" ELSE acceptThread
           /\ accPc' = IF outcome = "ok" THEN "473" ELSE accPc
           /\ returned' = [returned EXCEPT ![t] = IF outcome = "ok" THEN "true" ELSE "false"]
           /\ setupFailed' = (outcome # "ok")
    /\ stack' = Leave(t)
    /\ UNCHANGED <<clients, clientsMutex, sock, hsPc, frame, clientIt, sent101,
                   early, lastBc, request, shutdown,
                   beyondTransport>>

\* start() on a server whose accept thread is joinable. Nothing in start()
\* looks at running_: serverSocket_ = socket(...) overwrites the descriptor of
\* the listener in use, which stays open with nothing naming it; a failing
\* bind or listen (the port is taken by that listener) closes the new socket
\* and returns false; where bind and listen succeed (SO_REUSEADDR on Windows)
\* acceptThread_ = std::thread(...) assigns to a joinable std::thread, which
\* calls std::terminate
WsStartRunning(t) ==
    /\ At(t, "372")
    /\ acceptThread = "joinable"
    /\ \E outcome \in {"socket", "bind", "listen", "ok"} :
           /\ serverSocket' = IF outcome = "socket" THEN "INVALID" ELSE "fd"
           /\ listener' = IF listener = "open" THEN "lost" ELSE listener
           /\ wsRunning' = IF outcome = "ok" THEN TRUE ELSE wsRunning
           /\ terminated' = IF outcome = "ok" THEN TRUE ELSE terminated
           /\ returned' = [returned EXCEPT ![t] = IF outcome = "ok" THEN "none" ELSE "false"]
           /\ setupFailed' = (outcome # "ok")
    /\ stack' = Leave(t)
    /\ UNCHANGED <<acceptThread, accPc, clients, clientsMutex, sock, hsPc, frame, clientIt,
                   sent101, early, lastBc, request, shutdown, simRunning, targetOPS,
                   simThread, workerPc, batchI, ordersGenerated, tradesExecuted, startArg,
                   stopReturned, spawned, periods, inside, publisher, gRunning, codec,
                   others>>

\* ---- stop() --------------------------------------------------------------
\* running_ = false;
WsStop411(t) ==
    /\ At(t, "411")
    /\ wsRunning' = FALSE
    /\ shutdown' = Logged(shutdown, "transport-begin")
    /\ stack' = Goto(t, "412")
    /\ UNCHANGED <<returned, serverSocket, listener, acceptThread, accPc, clients,
                   clientsMutex, sock, hsPc, frame, clientIt, sent101, early,
                   lastBc, request, setupFailed,
                   beyondTransport>>

\* if (serverSocket_ != INVALID_SOCKET) { CLOSE_SOCKET(serverSocket_);
\*                                        serverSocket_ = INVALID_SOCKET; }
WsStop412(t) ==
    /\ At(t, "412")
    /\ IF serverSocket # "INVALID"
       THEN /\ listener' = IF listener = "lost" THEN "lost" ELSE "closed"
            /\ serverSocket' = "INVALID"
       ELSE UNCHANGED <<listener, serverSocket>>
    /\ stack' = Goto(t, "417")
    /\ UNCHANGED <<returned, wsRunning, acceptThread, accPc, clients, clientsMutex,
                   sock, hsPc, frame, clientIt, sent101, early, lastBc,
                   request, setupFailed, shutdown,
                   beyondTransport>>

\* if (acceptThread_.joinable()) acceptThread_.join();
WsStop417(t) ==
    /\ At(t, "417")
    /\ acceptThread = "joinable" => accPc = "exited"
    /\ acceptThread' = "empty"
    /\ accPc' = IF acceptThread = "joinable" THEN "none" ELSE accPc
    /\ stack' = Goto(t, "420")
    /\ UNCHANGED <<returned, wsRunning, serverSocket, listener, clients,
                   clientsMutex, sock, hsPc, frame, clientIt, sent101, early,
                   lastBc, request, setupFailed, shutdown,
                   beyondTransport>>

\* std::lock_guard<std::mutex> lock(clientsMutex_);
WsStop420(t) ==
    /\ At(t, "420")
    /\ clientsMutex = "free"
    /\ clientsMutex' = t
    /\ stack' = Goto(t, "421")
    /\ UNCHANGED <<returned, wsRunning, serverSocket, listener, acceptThread, accPc,
                   clients, sock, hsPc, frame, clientIt, sent101, early, lastBc,
                   request, setupFailed, shutdown,
                   beyondTransport>>

\* for (auto &client : clients_) CLOSE_SOCKET(client);  clients_.clear();
\* and the lock_guard is released on return
WsStop421(t) ==
    /\ At(t, "421")
    /\ sock' = [s \in Sockets |->
                   IF \E i \in DOMAIN clients : clients[i] = s THEN "closed" ELSE sock[s]]
    /\ clients' = <<>>
    /\ clientsMutex' = "free"
    /\ returned' = [returned EXCEPT ![t] = "void"]
    /\ shutdown' = Logged(shutdown, "transport-end")
    /\ stack' = Leave(t)
    /\ UNCHANGED <<wsRunning, serverSocket, listener, acceptThread, accPc, hsPc,
                   frame, clientIt, sent101, early, lastBc, request, setupFailed,
                   beyondTransport>>

\* ---- acceptLoop() --------------------------------------------------------
\* while (running_)
Accept473 ==
    /\ accPc = "473"
    /\ accPc' = IF wsRunning THEN "477" ELSE "exited"
    /\ UNCHANGED <<stack, returned, wsRunning, serverSocket, listener, acceptThread,
                   clients, clientsMutex, sock, hsPc, frame, clientIt, sent101,
                   early, lastBc, request, setupFailed, shutdown,
                   beyondTransport>>

\* accept(serverSocket_, ...): on a closed or invalid descriptor the call
\* fails at once (if (clientSocket == INVALID_SOCKET) continue;), otherwise
\* the thread blocks in the kernel
Accept477 ==
    /\ accPc = "477"
    /\ accPc' = IF serverSocket = "INVALID" \/ listener # "open" THEN "473" ELSE "blocked"
    /\ UNCHANGED <<stack, returned, wsRunning, serverSocket, listener, acceptThread,
                   clients, clientsMutex, sock, hsPc, frame, clientIt, sent101,
                   early, lastBc, request, setupFailed, shutdown,
                   beyondTransport>>

\* a connection arrives: accept returns its descriptor and the handshake runs
\* in a detached thread (std::thread([this, clientSocket]() {...}).detach()).
\* A thread already blocked in accept when stop() closes the listener may
\* still be handed a connection.
AcceptConnection(s) ==
    /\ accPc = "blocked"
    /\ sock[s] = "fresh"
    /\ \A r \in Sockets : r < s => sock[r] # "fresh"
    /\ sock' = [sock EXCEPT ![s] = "open"]
    /\ hsPc' = [hsPc EXCEPT ![s] = "498"]
    /\ accPc' = "473"
    /\ UNCHANGED <<stack, returned, wsRunning, serverSocket, listener, acceptThread,
                   clients, clientsMutex, frame, clientIt, sent101, early, lastBc,
                   request, setupFailed, shutdown,
                   beyondTransport>>

\* the listener was closed under the blocked thread: accept fails
AcceptInterrupted ==
    /\ accPc = "blocked"
    /\ listener = "closed"
    /\ accPc' = "473"
    /\ UNCHANGED <<stack, returned, wsRunning, serverSocket, listener, acceptThread,
                   clients, clientsMutex, sock, hsPc, frame, clientIt, sent101,
                   early, lastBc, request, setupFailed, shutdown,
                   beyondTransport>>

\* ---- the handshake thread of one connection ------------------------------
\* performHandshake: recv, then request.find("Sec-WebSocket-Key: ").
\* received <= 0 and a request without the header both return false.
Handshake498(s) ==
    /\ hsPc[s] = "498"
    /\ \E received \in {"failed", "nokey", "key"} :
           /\ request' = [request EXCEPT ![s] = received]
           /\ hsPc' = [hsPc EXCEPT ![s] = IF received = "key" THEN "528" ELSE "489"]
    /\ UNCHANGED <<stack, returned, wsRunning, serverSocket, listener, acceptThread,
                   accPc, clients, clientsMutex, sock, frame, clientIt, sent101,
                   early, lastBc, setupFailed, shutdown,
                   beyondTransport>>

\* mutant: the result of the response's send is ignored
AfterResponse_Ignored(sent) == "486"

\* if (performHandshake(clientSocket)) {...} else {...}, where performHandshake
\* returns send(...) != SOCKET_ERROR
AfterResponse(sent) == IF sent THEN "486" ELSE "489"

\* return send(client, resp.c_str(), ...) != SOCKET_ERROR;
Handshake528(s) ==
    /\ hsPc[s] = "528"
    /\ \E sent \in BOOLEAN :
           /\ hsPc' = [hsPc EXCEPT ![s] = AfterResponse(sent)]
           /\ sent101' = IF sent THEN sent101 \cup {s} ELSE sent101
    /\ UNCHANGED <<stack, returned, wsRunning, serverSocket, listener, acceptThread,
                   accPc, clients, clientsMutex, sock, frame, clientIt, early,
                   lastBc, request, setupFailed, shutdown,
                   beyondTransport>>

\* mutant: the handshake thread appends without waiting for the mutex
Handshake486_Unlocked(s) ==
    /\ hsPc[s] = "486"
    /\ hsPc' = [hsPc EXCEPT ![s] = "487"]
    /\ UNCHANGED <<stack, returned, wsRunning, serverSocket, listener, acceptThread,
                   accPc, clients, clientsMutex, sock, frame, clientIt, sent101, early,
                   lastBc, request, setupFailed, shutdown,
                   beyondTransport>>

\* std::lock_guard<std::mutex> lock(clientsMutex_);
Handshake486(s) ==
    /\ hsPc[s] = "486"
    /\ clientsMutex = "free"
    /\ clientsMutex' = "handshake"
    /\ hsPc' = [hsPc EXCEPT ![s] = "487"]
    /\ UNCHANGED <<stack, returned, wsRunning, serverSocket, listener, acceptThread,
                   accPc, clients, sock, frame, clientIt, sent101, early, lastBc,
                   request, setupFailed, shutdown,
                   beyondTransport>>

\* clients_.push_back(clientSocket); and the lock_guard is released
Handshake487(s) ==
    /\ hsPc[s] = "487"
    /\ clients' = Append(clients, s)
    /\ clientsMutex' = "free"
    /\ hsPc' = [hsPc EXCEPT ![s] = "done"]
    /\ UNCHANGED <<stack, returned, wsRunning, serverSocket, listener, acceptThread,
                   accPc, sock, frame, clientIt, sent101, early, lastBc,
                   request, setupFailed, shutdown,
                   beyondTransport>>

\* CLOSE_SOCKET(clientSocket);
Handshake489(s) ==
    /\ hsPc[s] = "489"
    /\ sock' = [sock EXCEPT ![s] = "closed"]
    /\ hsPc' = [hsPc EXCEPT ![s] = "done"]
    /\ UNCHANGED <<stack, returned, wsRunning, serverSocket, listener, acceptThread,
                   accPc, clients, clientsMutex, frame, clientIt, sent101, early,
                   lastBc, request, setupFailed, shutdown,
                   beyondTransport>>

\* ---- broadcast() ---------------------------------------------------------
\* std::vector<char> frame = createFrame(message);
Broadcast435(t, message) ==
    /\ At(t, "435")
    /\ frame' = [frame EXCEPT ![t] = createFrame(message)]
    /\ stack' = Goto(t, "437")
    /\ UNCHANGED <<returned, wsRunning, serverSocket, listener, acceptThread, accPc,
                   clients, clientsMutex, sock, hsPc, clientIt, sent101, early,
                   lastBc, request, setupFailed, shutdown,
                   beyondTransport>>

\* std::lock_guard<std::mutex> lock(clientsMutex_); auto it = clients_.begin();
Broadcast437(t) ==
    /\ At(t, "437")
    /\ clientsMutex = "free"
    /\ clientsMutex' = t
    /\ clientIt' = 1
    /\ lastBc' = [atLock |-> clients, attempts |-> <<>>, failed |-> {}, done |-> FALSE]
    /\ stack' = Goto(t, "439")
    /\ UNCHANGED <<returned, wsRunning, serverSocket, listener, acceptThread, accPc,
                   clients, sock, hsPc, frame, sent101, early, request, setupFailed, shutdown,
                   beyondTransport>>

\* mutant: after an erase the iterator is advanced once more
AfterErase_Skip(i) == i + 1

\* it = clients_.erase(it): the iterator denotes the element that followed
AfterErase(i) == i

\* one turn of while (it != clients_.end()): the send, and on SOCKET_ERROR
\* the close and the erase, otherwise ++it
Broadcast441(t) ==
    /\ At(t, "439")
    /\ clientIt <= Len(clients)
    /\ \E sent \in BOOLEAN :
           LET client == clients[clientIt]
           IN  /\ lastBc' = [lastBc EXCEPT
                                !.attempts = Append(@, <<client, frame[t]>>),
                                !.failed = IF sent THEN @ ELSE @ \cup {client}]
               /\ early' = IF client \in sent101 THEN early ELSE early \cup {client}
               /\ IF sent
                  THEN /\ clientIt' = clientIt + 1
                       /\ UNCHANGED <<clients, sock>>
                  ELSE /\ sock' = [sock EXCEPT ![client] = "closed"]
                       /\ clients' = [i \in 1..(Len(clients) - 1) |->
                                         IF i < clientIt THEN clients[i] ELSE clients[i + 1]]
                       /\ clientIt' = AfterErase(clientIt)
    /\ UNCHANGED <<stack, returned, wsRunning, serverSocket, listener, acceptThread,
                   accPc, clientsMutex, hsPc, frame, sent101, request, setupFailed, shutdown,
                   beyondTransport>>

\* it == clients_.end(): the loop ends, the lock_guard is released, the local
\* frame is destroyed, return
Broadcast439(t) ==
    /\ At(t, "439")
    /\ clientIt > Len(clients)
    /\ clientsMutex' = "free"
    /\ lastBc' = [lastBc EXCEPT !.done = TRUE]
    /\ frame' = [frame EXCEPT ![t] = <<>>]
    /\ returned' = [returned EXCEPT ![t] = "void"]
    /\ stack' = Leave(t)
    /\ UNCHANGED <<wsRunning, serverSocket, listener, acceptThread, accPc, clients,
                   sock, hsPc, clientIt, sent101, early, request, setupFailed, shutdown,
                   beyondTransport>>

\* ---- the Transport Server driven by its owner ----------------------------
\* the owner calls start() (not while the accept thread object is joinable)
\* and stop(); a second thread calls broadcast()
CallWsStart(t) ==
    /\ Idling(t)
    /\ acceptThread = "empty"
    /\ stack' = Enter(t, "372")
    /\ UNCHANGED <<returned, transport, shutdown, beyondTransport>>

CallWsStop(t) ==
    /\ Idling(t)
    /\ stack' = Enter(t, "411")
    /\ UNCHANGED <<returned, transport, shutdown, beyondTransport>>

CallBroadcast(t) ==
    /\ Idling(t)
    /\ stack' = Enter(t, "435")
    /\ UNCHANGED <<returned, transport, shutdown, beyondTransport>>

NextTransport ==
    \/ CallWsStart("main")
    \/ WsStart("main")
    \/ CallWsStop("main")
    \/ WsStop411("main")
    \/ WsStop412("main")
    \/ WsStop417("main")
    \/ WsStop420("main")
    \/ WsStop421("main")
    \/ Accept473
    \/ Accept477
    \/ \E s \in Sockets : AcceptConnection(s)
    \/ AcceptInterrupted
    \/ \E s \in Sockets : Handshake498(s)
    \/ \E s \in Sockets : Handshake528(s)
    \/ \E s \in Sockets : Handshake486(s)
    \/ \E s \in Sockets : Handshake487(s)
    \/ \E s \in Sockets : Handshake489(s)
    \/ CallBroadcast("other")
    \/ \E message \in Payloads : Broadcast435("other", message)
    \/ Broadcast437("other")
    \/ Broadcast441("other")
    \/ Broadcast439("other")

SpecTransport == Init /\ [][NextTransport]_vars

\* ==== claims about the Transport Server ====================================
\* ---- C21 -----------------------------------------------------------------
\* the descriptors of a sequence of sends
Receivers(attempts) == [i \in DOMAIN attempts |-> attempts[i][1]]

Survivors == SelectSeq(lastBc.atLock, LAMBDA s : s \notin lastBc.failed)

\* the fan-out in progress or last completed, as far as it has got
FanOutInOrder ==
    LET n == Len(lastBc.attempts)
    IN  /\ n <= Len(lastBc.atLock)
        /\ Receivers(lastBc.attempts) = SubSeq(lastBc.atLock, 1, n)
        /\ \A i, j \in DOMAIN lastBc.attempts :
               lastBc.attempts[i][2] = lastBc.attempts[j][2]
        /\ lastBc.failed \subseteq {lastBc.atLock[i] : i \in 1..n}

InClients(s) == \E i \in DOMAIN clients : clients[i] = s

\* the handshake of s has ended without a key header or without its 101
HandshakeFailed(s) == hsPc[s] = "done" /\ (request[s] # "key" \/ s \notin sent101)

\* C22: a descriptor enters the client set only from its own handshake thread
\* after the key header was found and the 101 response was sent; no frame is
\* written to a descriptor before its 101; a connection whose recv failed,
\* whose request had no key header or whose response send failed is closed
\* and is never in the client set.
C22_HandshakeFirst ==
    [][/\ \A s \in Sockets :
              (InClients(s)' /\ ~InClients(s)) =>
                  /\ hsPc[s] = "487"
                  /\ request[s] = "key"
                  /\ s \in sent101
       /\ early' = {}
       /\ \A s \in Sockets :
              HandshakeFailed(s)' => sock'[s] = "closed" /\ ~InClients(s)']_vars

\* one connection was refused for want of the key header and is closed, the
\* other completed its handshake and has been sent a frame
C22_Witness ==
    /\ \E s \in Sockets : HandshakeFailed(s) /\ request[s] = "nokey"
    /\ \E i \in DOMAIN lastBc.attempts :
           /\ lastBc.attempts[i][1] \in sent101
           /\ request[lastBc.attempts[i][1]] = "key"

\* ---- C23 -----------------------------------------------------------------
\* the owner's latest call was stop() and it has returned
StopReturned == Idling("main") /\ returned["main"] = "void"

\* C23: when stop() has returned the accept thread is joined, the listener is
\* closed, every accepted descriptor is closed and the client set is empty,
\* and it stays so.
C23_StopLeavesNothing ==
    StopReturned =>
        /\ acceptThread = "empty"
        /\ accPc = "none"
        /\ listener # "open"
        /\ clients = <<>>
        /\ \A s \in Sockets : sock[s] # "open"

\* the part of the claim that the code keeps: the accept thread is joined and
\* the listener closed
C23_AcceptJoined ==
    StopReturned => acceptThread = "empty" /\ accPc = "none" /\ listener # "open"

\* ==== MarketSimulator (order.hpp 69-199) ===================================
\* target rates passed to start(): its default and the one main passes
Rates == {1000000, 500000}

\* the orders generateOrder() draws: either side, one tick, one lot
GenPrices == {1}
GenSizes == {1}

\* mutant: start() goes on whatever the flag was
Exchange_Blind(was) == FALSE

\* stats_.running.exchange(true): the value the flag had
Exchange(was) == was

\* if (stats_.running.exchange(true)) return;
SimStart88(t) ==
    /\ At(t, "88")
    /\ simRunning' = TRUE
    /\ periods' = IF simRunning THEN periods ELSE periods + 1
    /\ IF Exchange(simRunning)
       THEN /\ stack' = Leave(t)
            /\ returned' = [returned EXCEPT ![t] = "void"]
       ELSE /\ stack' = Goto(t, "90")
            /\ UNCHANGED returned
    /\ UNCHANGED <<targetOPS, simThread, workerPc, batchI, ordersGenerated,
                   tradesExecuted, startArg, stopReturned, spawned, terminated, shutdown, inside,
                   beyondGenerator>>

\* targetOPS_ = targetOPS;
SimStart90(t) ==
    /\ At(t, "90")
    /\ targetOPS' = startArg[t]
    /\ stack' = Goto(t, "91")
    /\ UNCHANGED <<returned, simRunning, simThread, workerPc, batchI,
                   ordersGenerated, tradesExecuted, startArg, stopReturned, spawned, periods,
                   terminated, shutdown, inside, beyondGenerator>>

\* simulationThread_ = std::thread(&MarketSimulator::runSimulation, this);
\* move-assigning to a std::thread that is joinable calls std::terminate
SimStart91(t) ==
    /\ At(t, "91")
    /\ IF simThread = "joinable"
       THEN /\ terminated' = TRUE
            /\ UNCHANGED <<simThread, workerPc, spawned>>
       ELSE /\ simThread' = "joinable"
            /\ workerPc' = "140"
            /\ spawned' = spawned + 1
            /\ UNCHANGED terminated
    /\ stack' = Leave(t)
    /\ returned' = [returned EXCEPT ![t] = "void"]
    /\ UNCHANGED <<simRunning, targetOPS, batchI, ordersGenerated, tradesExecuted,
                   startArg, stopReturned, periods, shutdown, inside, beyondGenerator>>

\* mutant: stop() does not wait for the worker
Joined_Detached(position) == TRUE

\* simulationThread_.join() returns once runSimulation() has returned
Joined(position) == position = "exited"

\* stats_.running = false;
SimStop95(t) ==
    /\ At(t, "95")
    /\ simRunning' = FALSE
    /\ shutdown' = Logged(shutdown, "generator-begin")
    /\ stack' = Goto(t, "96")
    /\ UNCHANGED <<returned, targetOPS, simThread, workerPc, batchI, ordersGenerated,
                   tradesExecuted, startArg, stopReturned, spawned, periods, terminated, inside,
                   beyondGenerator>>

\* if (simulationThread_.joinable()) simulationThread_.join();
SimStop96(t) ==
    /\ At(t, "96")
    /\ simThread = "joinable" => Joined(workerPc)
    /\ simThread' = "empty"
    /\ workerPc' = IF simThread = "joinable" THEN "none" ELSE workerPc
    /\ stopReturned' = TRUE
    /\ shutdown' = Logged(shutdown, "generator-end")
    /\ stack' = Leave(t)
    /\ returned' = [returned EXCEPT ![t] = "void"]
    /\ UNCHANGED <<simRunning, targetOPS, batchI, ordersGenerated, tradesExecuted,
                   startArg, spawned, periods, terminated, inside, beyondGenerator>>

\* ---- runSimulation() -----------------------------------------------------
\* while (stats_.running)
Worker140 ==
    /\ workerPc = "140"
    /\ workerPc' = IF simRunning THEN "144" ELSE "exited"
    /\ batchI' = 0
    /\ UNCHANGED <<stack, returned, simRunning, targetOPS, simThread,
                   ordersGenerated, tradesExecuted, startArg, stopReturned, spawned, periods,
                   terminated, shutdown, inside, beyondGenerator>>

\* for (uint64_t i = 0; i < BATCH_SIZE && stats_.running; ++i)
\* a further order is generated only while fewer than MaxGenerated were
Worker144 ==
    /\ workerPc = "144"
    /\ IF batchI < BatchSize /\ simRunning
       THEN ordersGenerated < MaxGenerated /\ workerPc' = "145"
       ELSE workerPc' = "156"
    /\ UNCHANGED <<stack, returned, simRunning, targetOPS, simThread, batchI,
                   ordersGenerated, tradesExecuted, startArg, stopReturned, spawned, periods,
                   terminated, shutdown, inside, beyondGenerator>>

\* generateOrder(): book_.addOrder(side, price, size);
Worker145 ==
    /\ workerPc = "145"
    /\ workerPc' = "146"
    /\ \E side \in Sides, price \in GenPrices, size \in GenSizes :
           AddOrderEntry(side, price, size)
    /\ UNCHANGED <<stack, returned, simRunning, targetOPS, simThread, batchI,
                   ordersGenerated, tradesExecuted, startArg, stopReturned, spawned, periods,
                   terminated, shutdown, beyondGenerator>>

\* addOrder has returned: orderCount++; stats_.ordersGenerated++; ++i
Worker146 ==
    /\ workerPc = "146"
    /\ pc = "idle"
    /\ ordersGenerated' = ordersGenerated + 1
    /\ batchI' = batchI + 1
    /\ workerPc' = "144"
    /\ UNCHANGED <<stack, returned, simRunning, targetOPS, simThread,
                   tradesExecuted, startArg, stopReturned, spawned, periods, terminated, shutdown,
                   inside, beyondGenerator>>

\* mutant: the mirror is reset at the end of a batch
Worker156_Reset ==
    /\ workerPc = "156"
    /\ tradesExecuted' = 0
    /\ workerPc' = "140"
    /\ UNCHANGED <<stack, returned, simRunning, targetOPS, simThread, batchI,
                   ordersGenerated, startArg, stopReturned, spawned, periods, terminated, shutdown,
                   inside, beyondGenerator>>

\* the throttle, then stats_.tradesExecuted = book_.getTradeCount();
Worker156 ==
    /\ workerPc = "156"
    /\ tradesExecuted' = getTradeCount
    /\ workerPc' = "140"
    /\ UNCHANGED <<stack, returned, simRunning, targetOPS, simThread, batchI,
                   ordersGenerated, startArg, stopReturned, spawned, periods, terminated, shutdown,
                   inside, beyondGenerator>>

\* ---- the Generator's owner -----------------------------------------------
InStart(t) == At(t, "88") \/ At(t, "90") \/ At(t, "91")
InStop(t) == At(t, "95") \/ At(t, "96")

\* start() may be called by two threads at once, but not during a stop()
CallSimStart(t, rate) ==
    /\ Idling(t)
    /\ spawned < MaxStarts
    /\ \A u \in Threads : ~InStop(u)
    /\ stack' = Enter(t, "88")
    /\ startArg' = [startArg EXCEPT ![t] = rate]
    /\ stopReturned' = FALSE
    /\ UNCHANGED <<returned, simRunning, targetOPS, simThread, workerPc, batchI,
                   ordersGenerated, tradesExecuted, spawned, periods, terminated,
                   shutdown, inside, beyondGenerator>>

\* stop() is called while no other call of the owner is in progress
CallSimStop(t) ==
    /\ Idling(t)
    /\ \A u \in Threads : Idling(u)
    /\ stack' = Enter(t, "95")
    /\ UNCHANGED <<returned, generator, shutdown, inside, beyondGenerator>>

Callers == {"main", "other"}

WorkerStep ==
    \/ Worker140
    \/ Worker144
    \/ Worker145
    \/ Worker146
    \/ Worker156

BookStep ==
    \/ MatchBidTrade
    \/ MatchBidFill
    \/ MatchAskTrade
    \/ MatchAskFill
    \/ AddOrderReturn

NextGenerator ==
    \/ \E t \in Callers, rate \in Rates : CallSimStart(t, rate)
    \/ \E t \in Callers : SimStart88(t)
    \/ \E t \in Callers : SimStart90(t)
    \/ \E t \in Callers : SimStart91(t)
    \/ \E t \in Callers : CallSimStop(t)
    \/ \E t \in Callers : SimStop95(t)
    \/ \E t \in Callers : SimStop96(t)
    \/ WorkerStep
    \/ BookStep

SpecGenerator == Init /\ [][NextGenerator]_vars

\* where every thread is; each step of a thread changes it
positions == <<stack, workerPc, pc>>

\* the scheduler runs every thread that can take a step
SpecGeneratorFair ==
    /\ SpecGenerator
    /\ WF_positions(WorkerStep)
    /\ WF_positions(BookStep)
    /\ \A t \in Callers : WF_positions(SimStop95(t) \/ SimStop96(t))

\* ==== claims about the Market Generator ====================================
\* ---- C25 -----------------------------------------------------------------
\* a step of start() that finds the Generator running
LosingStart(t) == At(t, "88") /\ simRunning /\ stack'[t] # stack[t]

\* C25: a start() that finds the Generator running returns without spawning a
\* worker and without changing the target rate; with start() called by two
\* threads at once no more workers are spawned than running periods began,
\* and no worker is started over one that is still joinable
C25_OneWorker ==
    [][/\ \A t \in Callers :
              LosingStart(t) =>
                  /\ stack'[t] = <<>>
                  /\ spawned' = spawned
                  /\ targetOPS' = targetOPS
                  /\ workerPc' = workerPc
       /\ spawned' <= periods'
       /\ ~terminated']_vars

\* one start() has spawned the worker and set the rate, the other one, called
\* with another rate while the first was in progress, has returned
C25_Witness ==
    /\ spawned = 1
    /\ \A t \in Callers : Idling(t) /\ returned[t] = "void"
    /\ startArg["main"] # startArg["other"]
    /\ simRunning
    /\ workerPc \notin {"none", "exited"}
    /\ ~stopReturned

\* ---- C26 -----------------------------------------------------------------
Stopping == \E t \in Callers : InStop(t)

\* no worker thread exists and the running flag is down
WorkerGone == workerPc = "none" /\ simThread = "empty" /\ ~simRunning

\* the Order Book is not inside an add and the Generator's counters stay
Quiet ==
    /\ pc = "idle" /\ pc' = "idle"
    /\ nextOrderId' = nextOrderId
    /\ ordersGenerated' = ordersGenerated

\* a stop() in progress on a Generator never started or already stopped
IdleStop(t) == InStop(t) /\ simThread = "empty" /\ ~simRunning

\* C26: stop() eventually returns; from its return until the next start() the
\* worker has exited, no add reaches the Order Book and ordersGenerated does
\* not change; stop() on a Generator never started or already stopped never
\* waits and leaves the Generator as it was
C26_StopJoins ==
    /\ Stopping ~> stopReturned
    /\ [](stopReturned => WorkerGone)
    /\ [][stopReturned /\ stopReturned' => Quiet]_vars
    /\ [](\A t \in Callers : IdleStop(t) /\ At(t, "96") => ENABLED SimStop96(t))
    /\ [][\A t \in Callers :
              IdleStop(t) => UNCHANGED <<simRunning, targetOPS, simThread, workerPc,
                                         ordersGenerated, tradesExecuted, book>>]_vars

\* stop() has returned after the worker it joined had generated an order, and
\* a second stop() is in progress on the stopped Generator
C26_Witness ==
    /\ stopReturned
    /\ ordersGenerated > 0
    /\ spawned > 0
    /\ \E t \in Callers : IdleStop(t) /\ At(t, "96")

\* ==== TelemetryServer (telemetry.hpp) and runTelemetryServer (main.cpp) =====
\* positions of telemetry.hpp carry the prefix t, those of runTelemetryServer the
\* prefix m, those of the destructors run at its return the prefix ~

\* the rate main passes to simulator.start
DemoOPS == 500000

\* a call: the callee's entry above the position the caller resumes at
Call(t, callee, back) == [stack EXCEPT ![t] = <<callee, back>> \o Tail(@)]

\* ---- TelemetryServer::start ----------------------------------------------
\* if (!wsServer_.start())
Tel27(t) ==
    /\ At(t, "t27")
    /\ stack' = Call(t, "372", "t27r")
    /\ UNCHANGED <<returned, transport, generator, publisher, gRunning, shutdown, inside, codec, others>>

\* mutant: the result of wsServer_.start() is not looked at
StartFailed_Ignored(result) == FALSE

\* !wsServer_.start()
StartFailed(result) == result = "false"

\* { return false; }
Tel27r(t) ==
    /\ At(t, "t27r")
    /\ stack' = IF StartFailed(returned[t]) THEN Leave(t) ELSE Goto(t, "t31")
    /\ UNCHANGED <<returned, transport, generator, publisher, gRunning, shutdown, inside, codec, others>>

\* running_ = true; broadcastThread_ = std::thread(...); return true;
Tel31(t) ==
    /\ At(t, "t31")
    /\ telRunning' = TRUE
    /\ telThread' = "joinable"
    /\ stack' = [Leave(t) EXCEPT !["pub"] = <<"60">>]
    /\ returned' = [returned EXCEPT ![t] = "true"]
    /\ UNCHANGED <<transport, generator, gRunning, shutdown, inside, codec, others>>

\* ---- TelemetryServer::stop -----------------------------------------------
\* running_ = false;
Tel37(t) ==
    /\ At(t, "t37")
    /\ telRunning' = FALSE
    /\ shutdown' = Logged(shutdown, "publisher-begin")
    /\ stack' = Goto(t, "t38")
    /\ UNCHANGED <<returned, transport, generator, telThread, gRunning, inside, codec, others>>

\* if (broadcastThread_.joinable()) broadcastThread_.join();
Tel38(t) ==
    /\ At(t, "t38")
    /\ telThread = "joinable" => Idling("pub")
    /\ telThread' = "empty"
    /\ shutdown' = Logged(shutdown, "publisher-end")
    /\ stack' = Goto(t, "t41")
    /\ UNCHANGED <<returned, transport, generator, telRunning, gRunning, inside, codec, others>>

\* wsServer_.stop();
Tel41(t) ==
    /\ At(t, "t41")
    /\ stack' = Call(t, "411", "t42")
    /\ UNCHANGED <<returned, transport, generator, publisher, gRunning, shutdown, inside, codec, others>>

Tel42(t) ==
    /\ At(t, "t42")
    /\ stack' = Leave(t)
    /\ UNCHANGED <<returned, transport, generator, publisher, gRunning, shutdown, inside, codec, others>>

\* ---- TelemetryServer::broadcastLoop --------------------------------------
\* while (running_)
Pub60 ==
    /\ At("pub", "60")
    /\ stack' = IF telRunning THEN Goto("pub", "63") ELSE Leave("pub")
    /\ UNCHANGED <<returned, transport, generator, publisher, gRunning, shutdown, inside, codec, others>>

\* if (wsServer_.getClientCount() > 0) { ...; wsServer_.broadcast(json); }
Pub63 ==
    /\ At("pub", "63")
    /\ clientsMutex = "free"
    /\ stack' = IF Len(clients) > 0 THEN Goto("pub", "t96") ELSE Goto("pub", "68")
    /\ UNCHANGED <<returned, transport, generator, publisher, gRunning, shutdown, inside, codec, others>>

\* ---- TelemetryServer::buildTelemetryJSON ---------------------------------
\* the most records counted in record.built
MaxRecords == 2

\* a read of the book that runs while addOrder is at work in another thread is
\* a data race: undefined behaviour
RacyRead == pc # "idle"

\* book_->getBestBid(), getBestAsk(), getSpread(), getMidPrice()
Build96 ==
    /\ At("pub", "t96")
    /\ undefined' = (undefined \/ RacyRead)
    /\ stack' = Goto("pub", "t101")
    /\ UNCHANGED <<bids, asks, orderIndex, nextOrderId, tradeCount, lastPrice, pc, incoming,
                   fillQty, ret, cancelRet, lastOp, arg, trades, placedQty, tradedQty,
                   removedQty, zeroRetQty, dead, entry, issuedAtClear, returned, transport,
                   generator, publisher, gRunning, shutdown, codec, others>>

\* "totalOrders": stats.ordersGenerated.load(), "totalTrades":
\* stats.tradesExecuted.load()
Build101 ==
    /\ At("pub", "t101")
    /\ record' = [orders |-> ordersGenerated, trades |-> tradesExecuted,
                  built |-> IF record.built < MaxRecords THEN record.built + 1
                            ELSE record.built]
    /\ stack' = Goto("pub", "t106")
    /\ UNCHANGED <<returned, transport, generator, publisher, gRunning, shutdown, inside, codec,
                   handshakeIo, web>>

\* book_->getTopBids(10), book_->getTopAsks(10); return json.str(); and
\* wsServer_.broadcast(json);
Build106 ==
    /\ At("pub", "t106")
    /\ undefined' = (undefined \/ RacyRead)
    /\ stack' = Call("pub", "435", "68")
    /\ UNCHANGED <<bids, asks, orderIndex, nextOrderId, tradeCount, lastPrice, pc, incoming,
                   fillQty, ret, cancelRet, lastOp, arg, trades, placedQty, tradedQty,
                   removedQty, zeroRetQty, dead, entry, issuedAtClear, returned, transport,
                   generator, publisher, gRunning, shutdown, codec, others>>

\* the sleep that fills the broadcast interval
Pub68 ==
    /\ At("pub", "68")
    /\ stack' = Goto("pub", "60")
    /\ UNCHANGED <<returned, transport, generator, publisher, gRunning, shutdown, inside, codec, others>>

\* ---- runTelemetryServer ---------------------------------------------------
\* the process enters runTelemetryServer; the handler of SIGINT is installed
RunTelemetryServer ==
    /\ Idling("main")
    /\ returned["main"] = "none"
    /\ stack' = Enter("main", "m80")
    /\ UNCHANGED <<returned, transport, generator, publisher, gRunning, shutdown, inside, codec, others>>

\* signalHandler: g_running = false;
Sigint ==
    /\ ~Idling("main")
    /\ gRunning
    /\ gRunning' = FALSE
    /\ UNCHANGED <<stack, returned, transport, generator, publisher, shutdown, inside, codec, others>>

\* simulator.start(500000);
Main80 ==
    /\ At("main", "m80")
    /\ stack' = Call("main", "88", "m82")
    /\ startArg' = [startArg EXCEPT !["main"] = DemoOPS]
    /\ stopReturned' = FALSE
    /\ UNCHANGED <<returned, transport, simRunning, targetOPS, simThread, workerPc,
                   batchI, ordersGenerated, tradesExecuted, spawned, periods,
                   terminated, publisher, gRunning, shutdown, inside, codec, others>>

\* if (!telemetry.start(book, simulator))
Main82 ==
    /\ At("main", "m82")
    /\ stack' = Call("main", "t27", "m82r")
    /\ UNCHANGED <<returned, transport, generator, publisher, gRunning, shutdown, inside, codec, others>>

\* { ...; simulator.stop(); return; }
Main82r ==
    /\ At("main", "m82r")
    /\ stack' = IF returned["main"] = "false" THEN Call("main", "95", "m86")
                                             ELSE Goto("main", "m92")
    /\ UNCHANGED <<returned, transport, generator, publisher, gRunning, shutdown, inside, codec, others>>

\* return; the objects of runTelemetryServer are destroyed, last built first
Main86 ==
    /\ At("main", "m86")
    /\ stack' = Goto("main", "~49")
    /\ UNCHANGED <<returned, transport, generator, publisher, gRunning, shutdown, inside, codec, others>>

\* while (g_running) { sleep; print }
Main92 ==
    /\ At("main", "m92")
    /\ ~gRunning
    /\ stack' = Goto("main", "m106")
    /\ UNCHANGED <<returned, transport, generator, publisher, gRunning, shutdown, inside, codec, others>>

\* telemetry.stop();
Main106 ==
    /\ At("main", "m106")
    /\ stack' = Call("main", "t37", "m107")
    /\ UNCHANGED <<returned, transport, generator, publisher, gRunning, shutdown, inside, codec, others>>

\* simulator.stop();
Main107 ==
    /\ At("main", "m107")
    /\ stack' = Call("main", "95", "m108")
    /\ UNCHANGED <<returned, transport, generator, publisher, gRunning, shutdown, inside, codec, others>>

\* the end of runTelemetryServer
Main108 ==
    /\ At("main", "m108")
    /\ stack' = Goto("main", "~49")
    /\ UNCHANGED <<returned, transport, generator, publisher, gRunning, shutdown, inside, codec, others>>

\* ~TelemetryServer() { stop(); }
Destroy49 ==
    /\ At("main", "~49")
    /\ stack' = Call("main", "t37", "~370")
    /\ UNCHANGED <<returned, transport, generator, publisher, gRunning, shutdown, inside, codec, others>>

\* its member wsServer_: ~WebSocketServer() { stop(); }
Destroy370 ==
    /\ At("main", "~370")
    /\ stack' = Call("main", "411", "~110")
    /\ UNCHANGED <<returned, transport, generator, publisher, gRunning, shutdown, inside, codec, others>>

\* ~MarketSimulator() { stop(); }
Destroy110 ==
    /\ At("main", "~110")
    /\ stack' = Call("main", "95", "exit")
    /\ UNCHANGED <<returned, transport, generator, publisher, gRunning, shutdown, inside, codec, others>>

Exited == At("main", "exit")

\* the connections offered to the running engine
Visitors == {1}

NextProcess ==
    \/ RunTelemetryServer
    \/ Sigint
    \/ Main80
    \/ Main82
    \/ Main82r
    \/ Main86
    \/ Main92
    \/ Main106
    \/ Main107
    \/ Main108
    \/ Destroy49
    \/ Destroy370
    \/ Destroy110
    \/ Tel27("main")
    \/ Tel27r("main")
    \/ Tel31("main")
    \/ Tel37("main")
    \/ Tel38("main")
    \/ Tel41("main")
    \/ Tel42("main")
    \/ Pub60
    \/ Pub63
    \/ Build96
    \/ Build101
    \/ Build106
    \/ Pub68
    \/ SimStart88("main")
    \/ SimStart90("main")
    \/ SimStart91("main")
    \/ SimStop95("main")
    \/ SimStop96("main")
    \/ WorkerStep
    \/ BookStep
    \/ WsStart("main")
    \/ WsStop411("main")
    \/ WsStop412("main")
    \/ WsStop417("main")
    \/ WsStop420("main")
    \/ WsStop421("main")
    \/ Accept473
    \/ Accept477
    \/ AcceptInterrupted
    \/ \E s \in Visitors : AcceptConnection(s)
    \/ \E s \in Visitors : Handshake498(s)
    \/ \E s \in Visitors : Handshake528(s)
    \/ \E s \in Visitors : Handshake486(s)
    \/ \E s \in Visitors : Handshake487(s)
    \/ \E s \in Visitors : Handshake489(s)
    \/ \E message \in Payloads : Broadcast435("pub", message)
    \/ Broadcast437("pub")
    \/ Broadcast441("pub")
    \/ Broadcast439("pub")

SpecProcess == Init /\ [][NextProcess]_vars

\* ==== claims about startup and shutdown =====================================
\* ---- C24 -----------------------------------------------------------------
\* the step of Transport start() in which socket(), bind() or listen() fails
SetupFails(t) == At(t, "372") /\ stack'[t] # stack[t] /\ setupFailed'

\* no Publisher worker exists
NoPublisher == ~telRunning /\ telThread = "empty" /\ Idling("pub")

\* C24: a Transport start() whose socket setup fails returns false, spawns no
\* accept thread and leaves the running flag down; from then on no Publisher
\* worker is started, main never enters its serving loop, and when main
\* returns the Generator has been stopped and its worker joined
C24_SetupFailure ==
    [][/\ SetupFails("main") =>
              /\ returned'["main"] = "false"
              /\ UNCHANGED <<wsRunning, acceptThread, accPc>>
              /\ ~wsRunning'
       /\ setupFailed' =>
              /\ NoPublisher'
              /\ acceptThread' = "empty"
              /\ ~At("main", "m92")'
              /\ (At("main", "m86")' \/ Exited') => WorkerGone' /\ stopReturned'
       /\ At("main", "m86")' => setupFailed']_vars

\* bind failed after the Generator's worker had produced an order; main has
\* stopped the Generator and returned
C24_Witness ==
    /\ setupFailed
    /\ listener = "closed"
    /\ Exited
    /\ spawned = 1
    /\ ordersGenerated > 0
    /\ WorkerGone

\* ---- C27 -----------------------------------------------------------------
\* the stops in the order the Behavior section gives, each ended before the
\* next begins
StopsInOrder ==
    <<"publisher-begin", "publisher-end", "generator-begin", "generator-end",
      "transport-begin", "transport-end">>

IsPrefix(s, t) == Len(s) <= Len(t) /\ \A i \in DOMAIN s : s[i] = t[i]

\* main was serving when SIGINT arrived
Interrupted == ~gRunning /\ ~setupFailed /\ spawned > 0 /\ ~At("main", "m92")

\* C27: after SIGINT the process stops the Publisher, then the Generator, then
\* the Transport, each stop having joined its worker before the next begins,
\* and exits only after all three
C27_ShutdownOrder ==
    /\ ~setupFailed => IsPrefix(shutdown, StopsInOrder)
    /\ Exited /\ Interrupted => shutdown = StopsInOrder

\* the order of runTelemetryServer: TelemetryServer::stop stops the Transport
\* before it returns, the Generator is stopped last
StopsAsCoded ==
    <<"publisher-begin", "publisher-end", "transport-begin", "transport-end",
      "generator-begin", "generator-end">>

\* what the process does after SIGINT
C27_OrderAsCoded ==
    /\ ~setupFailed => IsPrefix(shutdown, StopsAsCoded)
    /\ Exited /\ Interrupted => shutdown = StopsAsCoded

C27_Interrupted == Exited /\ Interrupted /\ ordersGenerated > 0

\* ==== createFrame on its own ===============================================
MaxShort == 3

\* payload lengths: the shortest ones and those around the two changes of form
FrameLengths ==
    (0..MaxShort) \cup {124, 125, 126, 127, 130, 255, 256}
                  \cup {65534, 65535, 65536, 65537}

\* the byte a payload begins with; the following bytes count up from it
Fills == {0, 1, 65, 126, 127, 128, 129, 255}

Message(len, first) == [i \in 1..len |-> (first + i - 1) % 256]

\* createFrame(message) for one message
Frame(len, first) ==
    /\ framed = <<>>
    /\ payload' = Message(len, first)
    /\ framed' = createFrame(Message(len, first))
    /\ UNCHANGED <<others, inside, stack, returned, transport, generator, publisher, gRunning,
                   shutdown, key, sha, digest, b64, acceptKey>>

NextFrame == \E len \in FrameLengths, first \in Fills : Frame(len, first)

SpecFrame == Init /\ [][NextFrame]_vars

\* ---- C28 -----------------------------------------------------------------
\* v as n bytes, most significant first
BigEndian(v, n) ==
    [i \in 1..n |-> IF n - i < 4 THEN (v \div (256 ^ (n - i))) % 256 ELSE 0]

\* the header RFC 6455 gives an unmasked final text frame of len bytes
TextHeader(len) ==
    IF len <= 125 THEN <<129, len>>
    ELSE IF len <= 65535 THEN <<129, 126>> \o BigEndian(len, 2)
    ELSE <<129, 127>> \o BigEndian(len, 8)

\* C28: the frame is 0x81, the length in one byte up to 125, as 126 and 16
\* bits big-endian up to 65535, as 127 and 64 bits big-endian above, then the
\* payload unchanged; the mask bit is clear; 130 bytes give 81 7E 00 82
C28_Frame ==
    framed # <<>> =>
        /\ framed = TextHeader(Len(payload)) \o payload
        /\ framed[1] = 129
        /\ framed[2] < 128
        /\ Len(payload) = 130 => SubSeq(framed, 1, 4) = <<129, 126, 0, 130>>
        /\ Len(payload) = 65536 =>
               SubSeq(framed, 1, 10) = <<129, 127, 0, 0, 0, 0, 0, 1, 0, 0>>

\* a payload of 130 bytes was framed
C28_Witness ==
    /\ Len(payload) = 130
    /\ Len(framed) = 134
    /\ framed[134] = payload[130]

\* ==== C30 ==================================================================
\* the callback of the latest trade has returned
CallbackReturns == pc = "trade" /\ pc' # "trade"

\* C30: the trade counter is incremented strictly after the trade callback:
\* the callback of a trade starts and runs with the count of the trades before
\* it, and the count goes up by one once the callback has returned
C30_CountAfterCallback ==
    [][/\ TradeStep => getTradeCount' = getTradeCount
       /\ (InTrade /\ InTrade') => getTradeCount' = getTradeCount
       /\ CallbackReturns => getTradeCount' = getTradeCount + 1]_vars

\* what executeTrade does: the callback of the N-th trade already reads N
C30_CountBeforeCallback ==
    [][/\ TradeStep => getTradeCount' = getTradeCount + 1
       /\ (InTrade /\ InTrade') => getTradeCount' = getTradeCount
       /\ CallbackReturns => getTradeCount' = getTradeCount]_vars

\* the callback of the first trade is running and tradeCount() already gives 1
C30_FirstCallback == InTrade /\ Len(trades) = 1 /\ getTradeCount = 1 /\ tradedQty = fillQty


\* ==== SHA1 and Base64 (order.hpp 242-363) ==================================
\* a uint32_t is the pair of its high and its low 16 bits
Half == 2 ^ 16

AndBit == [a \in 0..1 |-> [b \in 0..1 |-> a * b]]
OrBit == [a \in 0..1 |-> [b \in 0..1 |-> a + b - a * b]]
XorBit == [a \in 0..1 |-> [b \in 0..1 |-> (a + b) % 2]]

\* op applied to each of the 16 bits of x and y
Bitwise(op, x, y) ==
    LET bit == [k \in 0..15 |-> op[(x \div (2 ^ k)) % 2][(y \div (2 ^ k)) % 2] * (2 ^ k)]
    IN  bit[0] + bit[1] + bit[2] + bit[3] + bit[4] + bit[5] + bit[6] + bit[7]
        + bit[8] + bit[9] + bit[10] + bit[11] + bit[12] + bit[13] + bit[14] + bit[15]

\* x & y, x | y, x ^ y, ~x, x + y on uint32_t
And32(x, y) == <<Bitwise(AndBit, x[1], y[1]), Bitwise(AndBit, x[2], y[2])>>
Or32(x, y) == <<Bitwise(OrBit, x[1], y[1]), Bitwise(OrBit, x[2], y[2])>>
Xor32(x, y) == <<Bitwise(XorBit, x[1], y[1]), Bitwise(XorBit, x[2], y[2])>>
Not32(x) == <<Half - 1 - x[1], Half - 1 - x[2]>>
Add32(x, y) ==
    LET low == x[2] + y[2]
    IN  <<(x[1] + y[1] + (low \div Half)) % Half, low % Half>>

\* x << n and x >> n on uint32_t, 0 <= n < 32
ShiftLeft32(x, n) ==
    IF n >= 16
    THEN <<(x[2] * (2 ^ (n - 16))) % Half, 0>>
    ELSE <<((x[1] * (2 ^ n)) % Half) + ((x[2] * (2 ^ n)) \div Half),
           (x[2] * (2 ^ n)) % Half>>

ShiftRight32(x, n) ==
    IF n >= 16
    THEN <<0, x[1] \div (2 ^ (n - 16))>>
    ELSE <<x[1] \div (2 ^ n),
           (x[2] \div (2 ^ n)) + ((x[1] % (2 ^ n)) * (2 ^ (16 - n)))>>

\* mutant: the bits shifted out are lost
leftRotate_NoWrap(x, n) == ShiftLeft32(x, n)

\* return (x << n) | (x >> (32 - n));
leftRotate(x, n) == Or32(ShiftLeft32(x, n), ShiftRight32(x, 32 - n))

\* h0 .. h4 at the start of hash()
InitialHash == <<<<26437, 8961>>, <<61389, 43913>>, <<39098, 56574>>,
                 <<4146, 21622>>, <<50130, 57840>>>>

\* padded: the input, 0x80, zeros up to 56 modulo 64, the bit length in 8 bytes
Pad(input) ==
    LET zeros == CHOOSE n \in 0..63 : (Len(input) + 1 + n) % 64 = 56
    IN  Append(input, 128) \o [i \in 1..zeros |-> 0]
            \o [i \in 1..8 |-> ByteOf(Len(input) * 8, 8 - i)]

\* w[i] for i < 16: four bytes of the chunk, most significant first
WordAt(padded, chunk, i) ==
    <<(padded[chunk + 4 * i + 1] * 256) + padded[chunk + 4 * i + 2],
      (padded[chunk + 4 * i + 3] * 256) + padded[chunk + 4 * i + 4]>>

\* w[i] = leftRotate(w[i - 3] ^ w[i - 8] ^ w[i - 14] ^ w[i - 16], 1), for the
\* i that follows the words w holds
NextWord(w) ==
    LET i == Len(w) + 1
    IN  leftRotate(Xor32(Xor32(Xor32(w[i - 3], w[i - 8]), w[i - 14]), w[i - 16]), 1)

\* f and k of round i
RoundF(i, b, c, d) ==
    IF i < 20 THEN Or32(And32(b, c), And32(Not32(b), d))
    ELSE IF i < 40 THEN Xor32(Xor32(b, c), d)
    ELSE IF i < 60 THEN Or32(Or32(And32(b, c), And32(b, d)), And32(c, d))
    ELSE Xor32(Xor32(b, c), d)

RoundK(i) ==
    IF i < 20 THEN <<23170, 31129>>
    ELSE IF i < 40 THEN <<28377, 60321>>
    ELSE IF i < 60 THEN <<36635, 48348>>
    ELSE <<51810, 49622>>

\* the four bytes of a word, most significant first
BytesOf(x) == <<x[1] \div 256, x[1] % 256, x[2] \div 256, x[2] % 256>>

\* ---- SHA1::hash, step by step ---------------------------------------------
\* entry: the initial h0..h4 and the padded input
Sha1Begin(input) ==
    sha' = [phase |-> "chunk", padded |-> Pad(input), chunk |-> 0, i |-> 0,
            w |-> <<>>, h |-> InitialHash, v |-> <<>>]

\* the head of the chunk loop: w[0..15] from the bytes of the chunk
Sha1Chunk ==
    /\ sha.phase = "chunk"
    /\ sha.chunk < Len(sha.padded)
    /\ sha' = [sha EXCEPT !.phase = "schedule",
                          !.w = [i \in 1..16 |-> WordAt(sha.padded, sha.chunk, i - 1)]]
    /\ UNCHANGED <<others, inside, stack, returned, transport, generator, publisher, gRunning,
                   shutdown, payload, framed, key, digest, b64, acceptKey>>

\* one pass of the loop over i = 16 .. 79
Sha1Schedule ==
    /\ sha.phase = "schedule"
    /\ Len(sha.w) < 80
    /\ sha' = [sha EXCEPT !.w = Append(sha.w, NextWord(sha.w))]
    /\ UNCHANGED <<others, inside, stack, returned, transport, generator, publisher, gRunning,
                   shutdown, payload, framed, key, digest, b64, acceptKey>>

\* uint32_t a = h0, b = h1, c = h2, d = h3, e = h4;
Sha1Load ==
    /\ sha.phase = "schedule"
    /\ Len(sha.w) = 80
    /\ sha' = [sha EXCEPT !.phase = "rounds", !.v = sha.h, !.i = 0]
    /\ UNCHANGED <<others, inside, stack, returned, transport, generator, publisher, gRunning,
                   shutdown, payload, framed, key, digest, b64, acceptKey>>

\* one pass of the loop over the 80 rounds
Sha1Round ==
    /\ sha.phase = "rounds"
    /\ sha.i < 80
    /\ LET a == sha.v[1]
           b == sha.v[2]
           c == sha.v[3]
           d == sha.v[4]
           e == sha.v[5]
           f == RoundF(sha.i, b, c, d)
           temp == Add32(Add32(Add32(Add32(leftRotate(a, 5), f), e), RoundK(sha.i)),
                         sha.w[sha.i + 1])
       IN  sha' = [sha EXCEPT !.v = <<temp, a, leftRotate(b, 30), c, d>>,
                              !.i = sha.i + 1]
    /\ UNCHANGED <<others, inside, stack, returned, transport, generator, publisher, gRunning,
                   shutdown, payload, framed, key, digest, b64, acceptKey>>

\* h0 += a; ... h4 += e; chunk += 64
Sha1ChunkEnd ==
    /\ sha.phase = "rounds"
    /\ sha.i = 80
    /\ sha' = [sha EXCEPT !.phase = "chunk",
                          !.h = [j \in 1..5 |-> Add32(sha.h[j], sha.v[j])],
                          !.chunk = sha.chunk + 64]
    /\ UNCHANGED <<others, inside, stack, returned, transport, generator, publisher, gRunning,
                   shutdown, payload, framed, key, digest, b64, acceptKey>>

\* after the last chunk: the 20 bytes of h0..h4
Sha1Result ==
    /\ sha.phase = "chunk"
    /\ sha.chunk >= Len(sha.padded)
    /\ digest' = BytesOf(sha.h[1]) \o BytesOf(sha.h[2]) \o BytesOf(sha.h[3])
                     \o BytesOf(sha.h[4]) \o BytesOf(sha.h[5])
    /\ sha' = [sha EXCEPT !.phase = "done"]
    /\ UNCHANGED <<others, inside, stack, returned, transport, generator, publisher, gRunning,
                   shutdown, payload, framed, key, b64, acceptKey>>

\* ---- Base64::encode --------------------------------------------------------
chars == <<"A", "B", "C", "D", "E", "F", "G", "H", "I", "J", "K", "L", "M", "N", "O", "P",
           "Q", "R", "S", "T", "U", "V", "W", "X", "Y", "Z", "a", "b", "c", "d", "e", "f",
           "g", "h", "i", "j", "k", "l", "m", "n", "o", "p", "q", "r", "s", "t", "u", "v",
           "w", "x", "y", "z", "0", "1", "2", "3", "4", "5", "6", "7", "8", "9", "+", "/">>

\* x & 0x3F
Low6(x) == x[2] % 64

\* while (valb >= 0) { result += chars[(val >> valb) & 0x3F]; valb -= 6; }
RECURSIVE Drain(_, _, _)
Drain(val, valb, text) ==
    IF valb >= 0
    THEN Drain(val, valb - 6, Append(text, chars[Low6(ShiftRight32(val, valb)) + 1]))
    ELSE <<valb, text>>

\* while (result.size() % 4) result += '=';
RECURSIVE PadEquals(_)
PadEquals(text) ==
    IF Len(text) % 4 # 0 THEN PadEquals(Append(text, "=")) ELSE text

\* ---- performHandshake: the accept key ------------------------------------
\* the character codes of the characters a key and the magic string consist of
Ord(c) ==
    IF c = "=" THEN 61
    ELSE IF c = "-" THEN 45
    ELSE LET j == CHOOSE n \in 1..64 : chars[n] = c
         IN  IF j <= 26 THEN 64 + j
             ELSE IF j <= 52 THEN 70 + j
             ELSE IF j <= 62 THEN j - 5
             ELSE IF j = 63 THEN 43
             ELSE 47

magic == <<"2", "5", "8", "E", "A", "F", "A", "5", "-", "E", "9", "1",
           "4", "-", "4", "7", "D", "A", "-", "9", "5", "C", "A", "-",
           "C", "5", "A", "B", "0", "D", "C", "8", "5", "B", "1", "1">>

\* the keys of the upgrade requests: the one of RFC 6455, another of that
\* length, the empty one, keys that end 9 and 8 bytes before a chunk does, a
\* short one
SampleKey == <<"d", "G", "h", "l", "I", "H", "N", "h", "b", "X", "B", "s",
               "Z", "S", "B", "u", "b", "2", "5", "j", "Z", "Q", "=", "=">>

RequestKeys ==
    {SampleKey,
     <<"x", "3", "J", "J", "H", "M", "b", "D", "L", "1", "E", "z",
       "L", "k", "h", "9", "G", "B", "h", "X", "D", "w", "=", "=">>,
     <<>>,
     <<"A", "A", "A", "A", "A", "A", "A", "A", "A", "A", "A", "A",
       "A", "A", "A", "A", "A", "A", "A">>,
     <<"/", "+", "/", "+", "/", "+", "/", "+", "/", "+", "/", "+",
       "/", "+", "/", "+", "/", "+", "/", "+">>,
     <<"Z", "m", "9", "v", "Y", "m", "F", "y">>}

\* SHA1::hash(key + magic) is called
Hash516(k) ==
    /\ sha.phase = "idle"
    /\ acceptKey = <<>>
    /\ key' = k
    /\ Sha1Begin([j \in 1..(Len(k) + Len(magic)) |-> Ord((k \o magic)[j])])
    /\ UNCHANGED <<others, inside, stack, returned, transport, generator, publisher, gRunning,
                   shutdown, payload, framed, digest, b64, acceptKey>>

\* Base64::encode(digest) is called: int val = 0, valb = -6;
Encode516 ==
    /\ sha.phase = "done"
    /\ b64.phase = "idle"
    /\ acceptKey = <<>>
    /\ b64' = [phase |-> "loop", pos |-> 1, val |-> <<0, 0>>, valb |-> -6, result |-> <<>>]
    /\ UNCHANGED <<others, inside, stack, returned, transport, generator, publisher, gRunning,
                   shutdown, payload, framed, key, sha, digest, acceptKey>>

\* for (unsigned char c : input) { val = (val << 8) + c; valb += 8; ... }
\* val is an int that is never masked: its 32 bits wrap
EncodeByte ==
    /\ b64.phase = "loop"
    /\ b64.pos <= Len(digest)
    /\ LET next == Add32(ShiftLeft32(b64.val, 8), <<0, digest[b64.pos]>>)
           drained == Drain(next, b64.valb + 8, b64.result)
       IN  b64' = [b64 EXCEPT !.pos = b64.pos + 1, !.val = next,
                              !.valb = drained[1], !.result = drained[2]]
    /\ UNCHANGED <<others, inside, stack, returned, transport, generator, publisher, gRunning,
                   shutdown, payload, framed, key, sha, digest, acceptKey>>

\* if (valb > -6) result += chars[((val << 8) >> (valb + 8)) & 0x3F];
\* the padding, and std::string acceptKey = the result
EncodeReturn ==
    /\ b64.phase = "loop"
    /\ b64.pos > Len(digest)
    /\ acceptKey' =
           PadEquals(IF b64.valb > -6
                     THEN Append(b64.result,
                                 chars[Low6(ShiftRight32(ShiftLeft32(b64.val, 8),
                                                         b64.valb + 8)) + 1])
                     ELSE b64.result)
    /\ b64' = [b64 EXCEPT !.phase = "done"]
    /\ UNCHANGED <<others, inside, stack, returned, transport, generator, publisher, gRunning,
                   shutdown, payload, framed, key, sha, digest>>

NextAcceptKey ==
    \/ \E k \in RequestKeys : Hash516(k)
    \/ Sha1Chunk
    \/ Sha1Schedule
    \/ Sha1Load
    \/ Sha1Round
    \/ Sha1ChunkEnd
    \/ Sha1Result
    \/ Encode516
    \/ EncodeByte
    \/ EncodeReturn

SpecAcceptKey == Init /\ [][NextAcceptKey]_vars

\* ---- C29 -----------------------------------------------------------------
SampleAccept == <<"s", "3", "p", "P", "L", "M", "B", "i", "T", "x", "a", "Q",
                  "9", "k", "Y", "G", "z", "z", "h", "Z", "R", "b", "K", "+",
                  "x", "O", "o", "=">>

\* request keys with the accept keys RFC 6455 (SHA-1 of FIPS 180, base64 of
\* RFC 4648) gives them
StandardAccept ==
    {<<SampleKey, SampleAccept>>,
     <<<<"x", "3", "J", "J", "H", "M", "b", "D", "L", "1", "E", "z",
         "L", "k", "h", "9", "G", "B", "h", "X", "D", "w", "=", "=">>,
       <<"H", "S", "m", "r", "c", "0", "s", "M", "l", "Y", "U", "k",
         "A", "G", "m", "m", "5", "O", "P", "p", "G", "2", "H", "a",
         "G", "W", "k", "=">>>>,
     <<<<>>,
       <<"K", "f", "h", "9", "Q", "I", "s", "M", "V", "Z", "c", "l",
         "6", "x", "E", "P", "Y", "x", "P", "H", "z", "W", "8", "S",
         "Z", "8", "w", "=">>>>,
     <<<<"A", "A", "A", "A", "A", "A", "A", "A", "A", "A", "A", "A",
         "A", "A", "A", "A", "A", "A", "A">>,
       <<"a", "Y", "4", "P", "w", "G", "c", "V", "N", "J", "A", "8",
         "A", "P", "k", "O", "5", "D", "y", "V", "U", "W", "J", "M",
         "+", "G", "I", "=">>>>,
     <<<<"/", "+", "/", "+", "/", "+", "/", "+", "/", "+", "/", "+",
         "/", "+", "/", "+", "/", "+", "/", "+">>,
       <<"k", "P", "n", "/", "E", "M", "I", "x", "t", "A", "v", "w",
         "R", "x", "O", "p", "p", "Q", "K", "W", "p", "8", "R", "4",
         "n", "y", "g", "=">>>>,
     <<<<"Z", "m", "9", "v", "Y", "m", "F", "y">>,
       <<"j", "U", "A", "y", "9", "7", "2", "j", "q", "N", "Z", "1",
         "P", "Y", "E", "0", "F", "X", "D", "Y", "o", "j", "r", "e",
         "A", "y", "c", "=">>>>}

\* C29: the accept key is the base64 form of the SHA-1 digest of the request
\* key followed by the magic string, as the standards define them; for the
\* key dGhlIHNhbXBsZSBub25jZQ== it is s3pPLMBiTxaQ9kYGzzhZRbK+xOo=
C29_AcceptKey ==
    acceptKey # <<>> =>
        /\ <<key, acceptKey>> \in StandardAccept
        /\ key = SampleKey => acceptKey = SampleAccept
        /\ Len(digest) = 20
        /\ Len(acceptKey) = 28

\* the accept key of the sample request was computed
C29_Witness ==
    /\ key = SampleKey
    /\ acceptKey = SampleAccept
    /\ sha.phase = "done"
    /\ sha.chunk = 128

\* ---- performHandshake reading the request --------------------------------
\* a valid upgrade request, in pieces that are never split: "G" the request line
\* with its "\r\n", "H" a header line with its "\r\n", "K" the text
\* "Sec-WebSocket-Key: ", "a" and "b" the characters of the key, "N" a "\r\n";
\* the last "N" is the blank line that ends the header block
UpgradeRequest == <<"G", "H", "K", "a", "b", "N", "H", "N">>

\* the key this request carries
RequestKey == <<"a", "b">>

\* the most segments the client sends the request in
MaxSegments == 3

\* the places the client may cut the request at
CutSets == {c \in SUBSET (1..(Len(UpgradeRequest) - 1)) : Cardinality(c) < MaxSegments}

\* the request cut after the positions in cuts
RECURSIVE Segments(_, _, _)
Segments(text, from, cuts) ==
    IF from > Len(text) THEN <<>>
    ELSE LET to == IF \E c \in cuts : c >= from
                   THEN CHOOSE c \in cuts : c >= from /\ \A d \in cuts : d >= from => c <= d
                   ELSE Len(text)
         IN  <<SubSeq(text, from, to)>> \o Segments(text, to + 1, cuts)

\* request.find(keyHeader): the position of the header, 0 for npos
KeyPos(text) ==
    IF \E i \in DOMAIN text : text[i] = "K"
    THEN CHOOSE i \in DOMAIN text : text[i] = "K" /\ \A j \in 1..(i - 1) : text[j] # "K"
    ELSE 0

\* request.substr(keyStart, keyEnd - keyStart), keyEnd = request.find("\r\n",
\* keyStart): up to the next "\r\n", or to the end of the text when there is
\* none (npos - keyStart exceeds what is left)
KeyOf(text) ==
    LET keyStart == KeyPos(text) + 1
        ends == {j \in keyStart..Len(text) : text[j] = "N"}
        keyEnd == IF ends = {} THEN Len(text) + 1
                  ELSE CHOOSE j \in ends : \A k \in ends : j <= k
    IN  SubSeq(text, keyStart, keyEnd - 1)

\* a client connects and will send the request in these segments
ClientSends(cuts) ==
    /\ sock[1] = "fresh"
    /\ wire = <<>>
    /\ wire' = Segments(UpgradeRequest, 1, cuts)
    /\ UNCHANGED <<web, record, arrived, buffer, inside, stack, returned, transport, generator,
                   publisher, gRunning, shutdown, codec>>

\* the next segment reaches the server's socket
SegmentArrives ==
    /\ sock[1] = "open"
    /\ wire # <<>>
    /\ arrived' = arrived \o Head(wire)
    /\ wire' = Tail(wire)
    /\ UNCHANGED <<web, record, buffer, inside, stack, returned, transport, generator, publisher,
                   gRunning, shutdown, codec>>

\* int received = recv(client, buffer, sizeof(buffer) - 1, 0): one call, which
\* returns what has arrived so far; then request.find("Sec-WebSocket-Key: ")
\* and the key up to the next "\r\n"
Handshake498Read(s) ==
    /\ hsPc[s] = "498"
    /\ arrived # <<>>
    /\ buffer' = arrived
    /\ arrived' = <<>>
    /\ request' = [request EXCEPT ![s] = IF KeyPos(arrived) = 0 THEN "nokey" ELSE "key"]
    /\ key' = IF KeyPos(arrived) = 0 THEN key ELSE KeyOf(arrived)
    /\ hsPc' = [hsPc EXCEPT ![s] = IF KeyPos(arrived) = 0 THEN "489" ELSE "528"]
    /\ UNCHANGED <<stack, returned, wsRunning, serverSocket, listener, acceptThread,
                   accPc, clients, clientsMutex, sock, frame, clientIt, sent101,
                   early, lastBc, setupFailed, shutdown, wire, record, web, payload, framed,
                   sha,
                   digest, b64, acceptKey, inside, generator, publisher, gRunning>>

NextHandshake ==
    \/ CallWsStart("main")
    \/ WsStart("main")
    \/ Accept473
    \/ Accept477
    \/ \E cuts \in CutSets : ClientSends(cuts)
    \/ AcceptConnection(1)
    \/ SegmentArrives
    \/ Handshake498Read(1)
    \/ Handshake528(1)
    \/ Handshake486(1)
    \/ Handshake487(1)
    \/ Handshake489(1)

SpecHandshake == Init /\ [][NextHandshake]_vars

\* ---- C31 -----------------------------------------------------------------
\* the text ends with the blank line of a header block
HeaderComplete(text) ==
    \E i \in 2..Len(text) : text[i] = "N" /\ text[i - 1] \in {"G", "H", "N"}

\* C31: performHandshake looks for the key header only in a complete header
\* block, so the valid request is answered with its own key however its bytes
\* were split over reads
C31_ReadsWholeRequest ==
    buffer # <<>> =>
        /\ HeaderComplete(buffer)
        /\ request[1] = "key"
        /\ key = RequestKey

\* what the code does: one recv, and the key header is looked for in whatever
\* that read returned
C31_OneRead ==
    [][buffer # <<>> => UNCHANGED buffer]_vars

\* a valid request whose first segment ends before the key header was refused
C31_SplitRefused ==
    /\ hsPc[1] = "done"
    /\ sock[1] = "closed"
    /\ request[1] = "nokey"
    /\ buffer \o arrived \o (IF wire = <<>> THEN <<>> ELSE Head(wire)) = SubSeq(UpgradeRequest, 1, 5)

\* ---- getClientCount() ----------------------------------------------------
\* std::lock_guard<std::mutex> lock(clientsMutex_);
Count456(t) ==
    /\ At(t, "456")
    /\ clientsMutex = "free"
    /\ clientsMutex' = t
    /\ stack' = Goto(t, "457")
    /\ UNCHANGED <<returned, wsRunning, serverSocket, listener, acceptThread, accPc,
                   clients, sock, hsPc, frame, clientIt, sent101, early, lastBc,
                   request, setupFailed, shutdown,
                   beyondTransport>>

\* return clients_.size(); and the lock_guard is released
Count457(t) ==
    /\ At(t, "457")
    /\ returned' = [returned EXCEPT ![t] = IF Len(clients) > 0 THEN "some" ELSE "zero"]
    /\ clientsMutex' = "free"
    /\ stack' = Leave(t)
    /\ UNCHANGED <<wsRunning, serverSocket, listener, acceptThread, accPc, clients,
                   sock, hsPc, frame, clientIt, sent101, early, lastBc, request,
                   setupFailed, shutdown,
                   beyondTransport>>

\* main's status line asks for the number of clients
CallGetClientCount(t) ==
    /\ Idling(t)
    /\ stack' = Enter(t, "456")
    /\ UNCHANGED <<returned, transport, shutdown, beyondTransport>>

\* the Transport Server started once and stopped once, as main does, with
\* its owner also calling getClientCount() while the server runs
NextClientSet ==
    \/ listener = "none" /\ CallWsStart("main")
    \/ WsStart("main")
    \/ wsRunning /\ CallWsStop("main")
    \/ WsStop411("main")
    \/ WsStop412("main")
    \/ WsStop417("main")
    \/ WsStop420("main")
    \/ WsStop421("main")
    \/ Accept473
    \/ Accept477
    \/ \E s \in Sockets : AcceptConnection(s)
    \/ AcceptInterrupted
    \/ \E s \in Sockets : Handshake498(s)
    \/ \E s \in Sockets : Handshake528(s)
    \/ \E s \in Sockets : Handshake486(s)
    \/ \E s \in Sockets : Handshake487(s)
    \/ \E s \in Sockets : Handshake489(s)
    \/ CallBroadcast("other")
    \/ Broadcast435("other", <<72>>)
    \/ Broadcast437("other")
    \/ Broadcast441("other")
    \/ Broadcast439("other")
    \/ wsRunning /\ CallGetClientCount("main")
    \/ Count456("main")
    \/ Count457("main")

SpecClientSet == Init /\ [][NextClientSet]_vars

\* ---- C32 -----------------------------------------------------------------
\* the threads that are between taking and releasing clientsMutex_
InSection ==
    {<<"handshake", s>> : s \in {r \in Sockets : hsPc[r] = "487"}}
        \cup {<<"broadcast", t>> : t \in {u \in Threads : At(u, "439")}}
        \cup {<<"stop", t>> : t \in {u \in Threads : At(u, "421")}}
        \cup {<<"count", t>> : t \in {u \in Threads : At(u, "457")}}

\* C32: the sections of code that read or write the client set never
\* overlap, and each runs with the mutex held; while a fan-out runs no
\* descriptor is appended and the frame goes only to descriptors that were in
\* the set when the fan-out took the mutex; getClientCount reads the set while
\* no other section is inside
C32_ClientSetGuarded ==
    [][/\ Cardinality(InSection) <= 1
       /\ InSection # {} <=> clientsMutex # "free"
       /\ clients' # clients => InSection # {}
       /\ (At("other", "439") /\ At("other", "439")') =>
              /\ Len(clients') <= Len(clients)
              /\ \A i \in DOMAIN clients' : \E j \in DOMAIN lastBc.atLock :
                     clients'[i] = lastBc.atLock[j]
              /\ \A i \in DOMAIN lastBc.attempts' :
                     \E j \in DOMAIN lastBc.atLock :
                         lastBc.attempts'[i][1] = lastBc.atLock[j]
       /\ (At("main", "457") /\ Idling("main")') =>
              /\ InSection = {<<"count", "main">>}
              /\ returned'["main"] = (IF Len(clients) > 0 THEN "some" ELSE "zero")
              /\ clients' = clients]_vars

\* a handshake waits with its descriptor for the mutex a running fan-out
\* holds, and getClientCount waits too
C32_Witness ==
    /\ At("other", "439")
    /\ clientIt = 2
    /\ \E s \in Sockets : hsPc[s] = "486"
    /\ At("main", "456")

\* ==== claims about the threads of a running engine ==========================
\* ---- C33 -----------------------------------------------------------------
\* the Publisher executes a read of the book in this step
PublisherReads ==
    \/ At("pub", "t96") /\ ~At("pub", "t96")'
    \/ At("pub", "t106") /\ ~At("pub", "t106")'

\* C33: no Publisher read of the book executes while an addOrder of the
\* Generator is in progress on it
C33_NoReadDuringAdd ==
    [][PublisherReads => ~RacyRead]_vars

\* the part of the claim that the code keeps: the book changes only in steps
\* of the worker's addOrder
C33_OnlyWorkerMutates ==
    [][book' # book => workerPc \in {"145", "146"}]_vars

\* the Publisher has read the book while the worker was inside addOrder
C33_RacedRead == undefined /\ record.built > 0 /\ workerPc = "146"

\* ---- C34 -----------------------------------------------------------------
\* the Publisher reads the totals of a record in this step
RecordBuilt == At("pub", "t101") /\ ~At("pub", "t101")'

\* C34: tradesExecuted changes only at the end of a batch of the worker, to
\* the book's trade count; from one record to the next totalOrders and
\* totalTrades do not decrease, and the totalTrades of a record is at most the
\* book's trade count when the record is built
C34_MirroredTrades ==
    [][/\ tradesExecuted' # tradesExecuted => workerPc = "156"
       /\ (workerPc = "156" /\ workerPc' # "156") => tradesExecuted' = getTradeCount
       /\ tradesExecuted' >= tradesExecuted
       /\ record'.orders >= record.orders
       /\ record'.trades >= record.trades
       /\ RecordBuilt => record'.trades <= getTradeCount
       /\ tradesExecuted' <= getTradeCount']_vars

\* two records were built, the later one after a trade was mirrored and with
\* more orders than trades
C34_Witness ==
    /\ record.built = 2
    /\ record.trades = 1
    /\ record.orders = 2
    /\ getTradeCount = 1

\* ---- start() called on running components --------------------------------
\* the owner calls TelemetryServer::start, also when it was started before
CallTelStart(t) ==
    /\ Idling(t)
    /\ stack' = Enter(t, "t27")
    /\ UNCHANGED <<returned, transport, generator, publisher, gRunning, shutdown, inside,
                   codec, others>>

\* the owner of a Transport Server calls its start() while it runs
CallWsStartAgain(t) ==
    /\ Idling(t)
    /\ wsRunning
    /\ stack' = Enter(t, "372")
    /\ UNCHANGED <<returned, transport, shutdown, beyondTransport>>

\* starts and repeated starts of the Publisher and of its Transport Server,
\* with one client; nothing runs after std::terminate
NextDoubleStart ==
    \/ ~terminated /\ CallTelStart("main")
    \/ ~terminated /\ CallWsStartAgain("main")
    \/ ~terminated /\ Tel27("main")
    \/ ~terminated /\ Tel27r("main")
    \/ ~terminated /\ Tel31("main")
    \/ ~terminated /\ WsStart("main")
    \/ ~terminated /\ WsStartRunning("main")
    \/ ~terminated /\ Pub60
    \/ ~terminated /\ Pub63
    \/ ~terminated /\ Build96
    \/ ~terminated /\ Build101
    \/ ~terminated /\ Build106
    \/ ~terminated /\ Pub68
    \/ ~terminated /\ Accept473
    \/ ~terminated /\ Accept477
    \/ ~terminated /\ \E s \in Visitors : AcceptConnection(s)
    \/ ~terminated /\ \E s \in Visitors : Handshake498(s)
    \/ ~terminated /\ \E s \in Visitors : Handshake528(s)
    \/ ~terminated /\ \E s \in Visitors : Handshake486(s)
    \/ ~terminated /\ \E s \in Visitors : Handshake487(s)
    \/ ~terminated /\ \E s \in Visitors : Handshake489(s)
    \/ ~terminated /\ Broadcast435("pub", <<72>>)
    \/ ~terminated /\ Broadcast437("pub")
    \/ ~terminated /\ Broadcast441("pub")
    \/ ~terminated /\ Broadcast439("pub")

SpecDoubleStart == Init /\ [][NextDoubleStart]_vars

\* ---- C35 -----------------------------------------------------------------
\* C35: a start() of the Transport Server that finds it running changes
\* nothing: the listener in use and the descriptor naming it, the accept
\* thread, the flag and the process stay as they are; a start() of the
\* Publisher that finds it running returns without starting anything
C35_SecondStartIgnored ==
    [][\A t \in Threads :
           /\ (At(t, "372") /\ wsRunning /\ ~At(t, "372")') =>
                  /\ UNCHANGED <<serverSocket, listener, acceptThread, wsRunning, terminated>>
           /\ (At(t, "t27") /\ telRunning /\ ~At(t, "t27")') =>
                  stack'[t] = Tail(stack[t])]_vars

\* a second start() of the running Publisher returned false and left the
\* listener open with no descriptor naming it
C35_ListenerLost ==
    /\ telRunning
    /\ wsRunning
    /\ listener = "lost"
    /\ Idling("main")
    /\ returned["main"] = "false"

\* a second start() whose bind and listen succeeded ended the process
C35_Terminated == terminated /\ telRunning /\ listener = "lost"

\* ---- C36 -----------------------------------------------------------------
\* the steps that execute CLOSE_SOCKET find the descriptor open: the listener
\* in stop(), the clients in stop(), a refused connection in the handshake
\* thread, a client whose send failed in broadcast()
ListenerClosedOpen ==
    \A t \in Threads :
        (At(t, "412") /\ ~At(t, "412")' /\ serverSocket # "INVALID") => listener = "open"

ClientsClosedOpen ==
    /\ \A t \in Threads :
           (At(t, "421") /\ ~At(t, "421")') =>
               \A i \in DOMAIN clients : sock[clients[i]] = "open"
    /\ \A s \in Sockets :
           (hsPc[s] = "489" /\ hsPc'[s] # "489") => sock[s] = "open"
    /\ \A t \in Threads :
           (At(t, "439") /\ clients' # clients) => sock[clients[clientIt]] = "open"

\* C36: no socket descriptor is closed a second time
C36_ClosedOnce ==
    [][ListenerClosedOpen /\ ClientsClosedOpen]_vars

\* the part of the claim that the code keeps: accepted descriptors are closed
\* once
C36_ClientsClosedOnce ==
    [][ClientsClosedOpen]_vars

\* stop() is about to close the descriptor that the failed start() closed
C36_SecondClose ==
    /\ At("main", "412")
    /\ setupFailed
    /\ serverSocket = "fd"
    /\ listener = "closed"

\* ==== the backend proxy and its Binance adapter ==============================
\* every variable of the C++ engine, which the proxy and the page leave alone
engine == <<inside, stack, returned, transport, generator, publisher, gRunning, shutdown,
            codec, handshakeIo, record>>

\* BaseAdapter::maxReconnectAttempts
maxReconnectAttempts == 10

\* BaseAdapter::reconnectDelay, in seconds
reconnectDelay == 1

\* this.connected = true; this.reconnectAttempts = 0
emitConnect(a) == [a EXCEPT !.connected = TRUE, !.reconnectAttempts = 0]

\* this.connected = false
emitDisconnect(a) == [a EXCEPT !.connected = FALSE]

\* attemptReconnect(): nothing at maxReconnectAttempts, else a timer after
\* reconnectDelay * 2^reconnectAttempts and one more attempt counted
attemptReconnect(a) ==
    IF a.reconnectAttempts >= maxReconnectAttempts THEN a
    ELSE [a EXCEPT !.delay = reconnectDelay * (2 ^ a.reconnectAttempts),
                   !.reconnectAttempts = @ + 1,
                   !.reconnectTimer = "pending"]

\* clearTimeout(this.reconnectTimer); this.reconnectTimer = null
clearReconnectTimer(a) == [a EXCEPT !.reconnectTimer = "null"]

\* BinanceAdapter::subscribe: returns at once for a symbol of subscriptions;
\* else adds it and, on an open socket, sends SUBSCRIBE for its streams
subscribe(a, symbol) ==
    IF symbol \in a.subscriptions THEN a
    ELSE IF a.ws = "open"
         THEN [a EXCEPT !.subscriptions = @ \cup {symbol},
                        !.upstream = @ \cup {symbol},
                        !.subscribedStreams = @ \cup {symbol}]
         ELSE [a EXCEPT !.subscriptions = @ \cup {symbol}]

\* BinanceAdapter::unsubscribe: on an open socket sends UNSUBSCRIBE for the
\* symbol's streams; removes the symbol from subscriptions
unsubscribe(a, symbol) ==
    IF a.ws = "open"
    THEN [a EXCEPT !.subscriptions = @ \ {symbol},
                   !.upstream = @ \ {symbol},
                   !.subscribedStreams = @ \ {symbol}]
    ELSE [a EXCEPT !.subscriptions = @ \ {symbol}]

\* what the clients may ask for: the USDT pairs and one other pair
Requested == Symbols \cup {"BTCEUR"}

\* upperSymbol.endsWith('USDT')
endsWithUSDT(symbol) == symbol \in Symbols

\* cleanupSymbolSubscription(symbol) on the Map subs, the set syms and the
\* adapter a: when no client's set has the symbol and the adapter exists, the
\* adapter unsubscribes and the symbol leaves subscribedSymbols
cleanupSymbolSubscription(subs, st, symbol) ==
    LET hasSubscribers == \E c \in DOMAIN subs : symbol \in subs[c]
    IN  IF ~hasSubscribers /\ st.adapter.created
        THEN [symbols |-> st.symbols \ {symbol},
              adapter |-> unsubscribe(st.adapter, symbol)]
        ELSE st

\* for (const symbol of subscriptions) cleanupSymbolSubscription(symbol)
RECURSIVE CleanupEach(_, _, _)
CleanupEach(subs, st, todo) ==
    IF todo = {} THEN st
    ELSE LET symbol == CHOOSE s \in todo : TRUE
         IN  CleanupEach(subs, cleanupSymbolSubscription(subs, st, symbol),
                         todo \ {symbol})

\* subscriptions.add(upperSymbol) / subscriptions.delete(upperSymbol) on the
\* set clientSubscriptions.get(ws), when there is one
WithSymbol(subs, c, symbol) ==
    IF c \in DOMAIN subs THEN [subs EXCEPT ![c] = @ \cup {symbol}] ELSE subs

WithoutSymbol(subs, c, symbol) ==
    IF c \in DOMAIN subs THEN [subs EXCEPT ![c] = @ \ {symbol}] ELSE subs

\* wss.on('connection'): clientSubscriptions.set(ws, new Set())
Connection(c) ==
    /\ session[c].state = "new"
    /\ clientSubscriptions' = [x \in DOMAIN clientSubscriptions \cup {c} |->
                                   IF x = c THEN {} ELSE clientSubscriptions[x]]
    /\ session' = [session EXCEPT ![c].state = "open"]
    /\ UNCHANGED <<subscribedSymbols, binanceAdapter, frontend, engine>>

\* handleSubscribe for one symbol while binanceAdapter is null: the symbol
\* joins the client's set, initBinanceAdapter creates the adapter and awaits
\* its connect(); a symbol that is no USDT pair is refused
HandleSubscribeFirst(c, symbol) ==
    /\ session[c].state = "open"
    /\ ~binanceAdapter.created
    /\ IF endsWithUSDT(symbol)
       THEN /\ clientSubscriptions' = WithSymbol(clientSubscriptions, c, symbol)
            /\ binanceAdapter' = [binanceAdapter EXCEPT !.created = TRUE,
                                                        !.ws = "connecting",
                                                        !.caller = "init"]
            /\ session' = [session EXCEPT ![c].awaiting = symbol]
       ELSE UNCHANGED <<clientSubscriptions, binanceAdapter, session>>
    /\ UNCHANGED <<subscribedSymbols, frontend, engine>>

\* handleSubscribe for one symbol when binanceAdapter is set: nothing it
\* awaits waits for an event, so it runs to its end: the symbol joins the
\* client's set, adapter.subscribe, subscribedSymbols.add
HandleSubscribe(c, symbol) ==
    /\ session[c].state = "open"
    /\ binanceAdapter.created
    /\ IF endsWithUSDT(symbol)
       THEN /\ clientSubscriptions' = WithSymbol(clientSubscriptions, c, symbol)
            /\ binanceAdapter' = subscribe(binanceAdapter, symbol)
            /\ subscribedSymbols' = subscribedSymbols \cup {symbol}
       ELSE UNCHANGED <<clientSubscriptions, binanceAdapter, subscribedSymbols>>
    /\ UNCHANGED <<session, frontend, engine>>

\* the adapter's socket opens: emitConnect, connect() resolves and the
\* handleSubscribe that awaited it goes on: adapter.subscribe,
\* subscribedSymbols.add
Init48Resolved(c) ==
    /\ session[c].awaiting # "none"
    /\ binanceAdapter.ws = "connecting"
    /\ binanceAdapter.caller = "init"
    /\ binanceAdapter' =
           subscribe([emitConnect(binanceAdapter) EXCEPT !.ws = "open", !.caller = "none"],
                     session[c].awaiting)
    /\ subscribedSymbols' = subscribedSymbols \cup {session[c].awaiting}
    /\ session' = [session EXCEPT ![c].awaiting = "none"]
    /\ UNCHANGED <<clientSubscriptions, frontend, engine>>

\* the adapter's socket fails: connect() rejects, handleSubscribe throws and
\* the message handler answers with an error; the close handler finds
\* connected false
Init48Rejected(c) ==
    /\ session[c].awaiting # "none"
    /\ binanceAdapter.ws = "connecting"
    /\ binanceAdapter.caller = "init"
    /\ binanceAdapter' = [emitDisconnect(binanceAdapter) EXCEPT !.ws = "closed",
                                                               !.caller = "none"]
    /\ session' = [session EXCEPT ![c].awaiting = "none"]
    /\ UNCHANGED <<clientSubscriptions, subscribedSymbols, frontend, engine>>

\* handleUnsubscribe for one symbol: subscriptions.delete, then
\* cleanupSymbolSubscription
HandleUnsubscribe(c, symbol) ==
    /\ session[c].state = "open"
    /\ LET subs == WithoutSymbol(clientSubscriptions, c, symbol)
           st == cleanupSymbolSubscription(
                     subs, [symbols |-> subscribedSymbols, adapter |-> binanceAdapter],
                     symbol)
       IN  /\ clientSubscriptions' = subs
           /\ subscribedSymbols' = st.symbols
           /\ binanceAdapter' = st.adapter
    /\ UNCHANGED <<session, frontend, engine>>

\* ws.on('close'): cleanupSymbolSubscription for every symbol of the client's
\* set, and only then clientSubscriptions.delete(ws)
ClientClose(c) ==
    /\ session[c].state = "open"
    /\ LET st == CleanupEach(
                     clientSubscriptions,
                     [symbols |-> subscribedSymbols, adapter |-> binanceAdapter],
                     IF c \in DOMAIN clientSubscriptions THEN clientSubscriptions[c]
                     ELSE {})
       IN  /\ subscribedSymbols' = st.symbols
           /\ binanceAdapter' = st.adapter
    /\ clientSubscriptions' = [x \in DOMAIN clientSubscriptions \ {c} |->
                                   clientSubscriptions[x]]
    /\ session' = [session EXCEPT ![c].state = "gone"]
    /\ UNCHANGED <<frontend, engine>>

NextProxy ==
    \/ \E c \in Clients : Connection(c)
    \/ \E c \in Clients, symbol \in Requested : HandleSubscribeFirst(c, symbol)
    \/ \E c \in Clients, symbol \in Requested : HandleSubscribe(c, symbol)
    \/ \E c \in Clients : Init48Resolved(c)
    \/ \E c \in Clients : Init48Rejected(c)
    \/ \E c \in Clients, symbol \in Symbols : HandleUnsubscribe(c, symbol)
    \/ \E c \in Clients : ClientClose(c)

SpecProxy == Init /\ [][NextProxy]_vars

\* ---- C37 -----------------------------------------------------------------
\* no handleSubscribe waits for the adapter's connect()
HandlersCompleted == \A c \in Clients : session[c].awaiting = "none"

\* the union of the subscription sets of the clients that are connected
Watched == UNION {clientSubscriptions[c] : c \in DOMAIN clientSubscriptions}

\* C37: whenever every handler of a subscribe, unsubscribe or close event has
\* completed, subscribedSymbols is the union of the subscription sets of the
\* connected clients (so a symbol whose last watcher disconnected is gone)
C37_SymbolsMatchClients == HandlersCompleted => subscribedSymbols = Watched

\* C37: an unsubscribe message of the last client watching a symbol, with the
\* adapter created, takes the symbol from the adapter and from
\* subscribedSymbols
C37_UnsubscribeReleases ==
    [][\A c \in Clients, symbol \in Symbols :
         (/\ HandleUnsubscribe(c, symbol)
          /\ binanceAdapter.created
          /\ \A x \in DOMAIN clientSubscriptions \ {c} :
                 symbol \notin clientSubscriptions[x])
         => /\ symbol \notin subscribedSymbols'
            /\ symbol \notin binanceAdapter'.subscriptions]_vars

\* every client has disconnected, no handler waits, the adapter is connected,
\* and a symbol is still in subscribedSymbols and subscribed at the adapter
C37_LastClientLeft ==
    /\ HandlersCompleted
    /\ DOMAIN clientSubscriptions = {}
    /\ \A c \in Clients : session[c].state = "gone"
    /\ binanceAdapter.connected
    /\ subscribedSymbols # {}
    /\ binanceAdapter.upstream = subscribedSymbols

\* a client disconnected while its handleSubscribe awaited the adapter, and
\* the handler added its symbol afterwards
C37_AddedAfterClose ==
    /\ HandlersCompleted
    /\ session[1].state = "gone"
    /\ session[2].state = "new"
    /\ subscribedSymbols = {"BTCUSDT"}

\* ==== the Binance adapter's connection =====================================
\* for (const symbol of this.subscriptions) await this.subscribe(symbol, 'crypto')
RECURSIVE SubscribeEach(_, _)
SubscribeEach(a, todo) ==
    IF todo = {} THEN a
    ELSE LET symbol == CHOOSE s \in todo : TRUE
         IN  SubscribeEach(subscribe(a, symbol), todo \ {symbol})

\* this.ws = new WebSocket(this.wsBaseUrl), awaited by the given caller; the
\* new socket was sent nothing yet
connect(a, caller) == [a EXCEPT !.ws = "connecting", !.caller = caller, !.upstream = {}]

\* initBinanceAdapter: binanceAdapter = new BinanceAdapter({}); await
\* binanceAdapter.connect()
AdapterCreate48 ==
    /\ ~binanceAdapter.created
    /\ binanceAdapter' = connect([binanceAdapter EXCEPT !.created = TRUE], "init")
    /\ UNCHANGED <<proxy, frontend, engine>>

\* the socket opens: emitConnect() and resolve(); the reconnect timer's
\* callback, when it awaited this connect(), goes on with its loop over
\* this.subscriptions
Open52 ==
    /\ binanceAdapter.ws = "connecting"
    /\ LET a == [emitConnect(binanceAdapter) EXCEPT !.ws = "open", !.caller = "none"]
       IN  binanceAdapter' = IF binanceAdapter.caller = "timer"
                             THEN SubscribeEach(a, a.subscriptions)
                             ELSE a
    /\ UNCHANGED <<proxy, frontend, engine>>

\* the socket fails before it opened: emitError, reject and the close handler;
\* the reconnect timer's callback catches the rejection and calls
\* attemptReconnect()
Error62 ==
    /\ binanceAdapter.ws = "connecting"
    /\ LET a == [emitDisconnect(binanceAdapter) EXCEPT !.ws = "closed", !.caller = "none"]
           b == IF a.connected THEN attemptReconnect(a) ELSE a
       IN  binanceAdapter' = IF binanceAdapter.caller = "timer"
                             THEN attemptReconnect(b)
                             ELSE b
    /\ UNCHANGED <<proxy, frontend, engine>>

\* the open socket is closed by Binance or the network: the close handler
\* runs this.emitDisconnect() and then if (this.connected) this.attemptReconnect()
Close68 ==
    /\ binanceAdapter.ws = "open"
    /\ LET a == emitDisconnect([binanceAdapter EXCEPT !.ws = "closed", !.upstream = {}])
       IN  binanceAdapter' = IF a.connected THEN attemptReconnect(a) ELSE a
    /\ UNCHANGED <<proxy, frontend, engine>>

\* disconnect(): clearReconnectTimer(), this.ws.close(), this.ws = null, both
\* sets cleared, emitDisconnect(); the closed socket still emits its events
Disconnect258 ==
    /\ binanceAdapter.created
    /\ ~binanceAdapter.intentional
    /\ LET a == clearReconnectTimer(binanceAdapter)
           b == [a EXCEPT !.detached = CASE a.ws = "connecting" -> "abort"
                                         [] a.ws = "open" -> "close"
                                         [] OTHER -> a.detached,
                          !.ws = "null",
                          !.upstream = {},
                          !.subscriptions = {},
                          !.subscribedStreams = {},
                          !.intentional = TRUE]
       IN  binanceAdapter' = emitDisconnect(b)
    /\ UNCHANGED <<proxy, frontend, engine>>

\* a socket that disconnect() closed while it was connecting emits error and
\* close: reject, and the reconnect timer's callback that awaited it catches
\* the rejection and calls attemptReconnect()
DetachedAbort ==
    /\ binanceAdapter.detached = "abort"
    /\ LET a == [emitDisconnect(binanceAdapter) EXCEPT !.detached = "none",
                                                        !.caller = "none"]
           b == IF a.connected THEN attemptReconnect(a) ELSE a
       IN  binanceAdapter' = IF binanceAdapter.caller = "timer"
                             THEN attemptReconnect(b)
                             ELSE b
    /\ UNCHANGED <<proxy, frontend, engine>>

\* a socket that disconnect() closed while it was open emits close
DetachedClose ==
    /\ binanceAdapter.detached = "close"
    /\ LET a == emitDisconnect([binanceAdapter EXCEPT !.detached = "none"])
       IN  binanceAdapter' = IF a.connected THEN attemptReconnect(a) ELSE a
    /\ UNCHANGED <<proxy, frontend, engine>>

\* adapter.subscribe(upperSymbol, 'crypto') of handleSubscribe
AdapterSubscribe(symbol) ==
    /\ binanceAdapter.created
    /\ ~binanceAdapter.intentional
    /\ binanceAdapter' = subscribe(binanceAdapter, symbol)
    /\ UNCHANGED <<proxy, frontend, engine>>

\* binanceAdapter.unsubscribe(upperSymbol) of cleanupSymbolSubscription
AdapterUnsubscribe(symbol) ==
    /\ binanceAdapter.created
    /\ ~binanceAdapter.intentional
    /\ binanceAdapter' = unsubscribe(binanceAdapter, symbol)
    /\ UNCHANGED <<proxy, frontend, engine>>

\* attemptReconnect() is called after the socket was lost: the call the close
\* handler is written to make, made here by a caller that does not test
\* this.connected (the method is protected, open to subclasses)
CallAttemptReconnect ==
    /\ binanceAdapter.ws = "closed"
    /\ binanceAdapter.reconnectTimer # "pending"
    /\ binanceAdapter' = attemptReconnect(binanceAdapter)
    /\ UNCHANGED <<proxy, frontend, engine>>

\* the reconnect timer fires: its callback calls this.connect() and awaits it
Timer564 ==
    /\ binanceAdapter.reconnectTimer = "pending"
    /\ binanceAdapter' = connect([binanceAdapter EXCEPT !.reconnectTimer = "fired"], "timer")
    /\ UNCHANGED <<proxy, frontend, engine>>

\* the adapter as the server drives it, with attemptReconnect() called when
\* its socket is lost
NextReconnect ==
    \/ AdapterCreate48
    \/ Open52
    \/ Error62
    \/ Close68
    \/ Disconnect258
    \/ DetachedAbort
    \/ DetachedClose
    \/ \E symbol \in Symbols : AdapterSubscribe(symbol)
    \/ \E symbol \in Symbols : AdapterUnsubscribe(symbol)
    \/ CallAttemptReconnect
    \/ Timer564

SpecReconnect == Init /\ [][NextReconnect]_vars

\* ---- C38 -----------------------------------------------------------------
\* the socket this.ws names goes from open to closed in this step: it was
\* closed from outside, not by disconnect()
UpstreamClose == binanceAdapter.ws = "open" /\ binanceAdapter'.ws = "closed"

\* C38: when the upstream socket closes without disconnect(), a reconnect is
\* scheduled (the reconnect timer is pending after the close handler)
C38_ReconnectScheduled ==
    [][UpstreamClose => binanceAdapter'.reconnectTimer = "pending"]_vars

\* C38: a timer that attemptReconnect() sets has the delay reconnectDelay *
\* 2^(attempts so far), one more attempt is counted, and none is set once
\* maxReconnectAttempts attempts were counted
C38_Backoff ==
    [][(binanceAdapter'.reconnectTimer = "pending" /\ binanceAdapter.reconnectTimer # "pending")
       => /\ binanceAdapter.reconnectAttempts < maxReconnectAttempts
          /\ binanceAdapter'.reconnectAttempts = binanceAdapter.reconnectAttempts + 1
          /\ binanceAdapter'.delay = reconnectDelay * (2 ^ binanceAdapter.reconnectAttempts)]_vars

\* the upstream socket closed without disconnect(), and nothing is scheduled
\* and nothing reconnects: the adapter stays without a socket
C38_NeverReconnects ==
    /\ binanceAdapter.ws = "closed"
    /\ ~binanceAdapter.intentional
    /\ ~binanceAdapter.connected
    /\ binanceAdapter.reconnectTimer = "null"
    /\ binanceAdapter.subscriptions = Symbols

\* ten attempts failed: no timer is pending and none will be set
C38_GaveUp ==
    /\ binanceAdapter.reconnectAttempts = maxReconnectAttempts
    /\ binanceAdapter.reconnectTimer = "fired"
    /\ binanceAdapter.ws = "closed"
    /\ binanceAdapter.delay = 512

\* disconnect() was called while the timer's connect() was in flight, and a
\* new reconnect timer is pending afterwards
C38_TimerAfterDisconnect ==
    /\ binanceAdapter.intentional
    /\ binanceAdapter.reconnectTimer = "pending"

\* ---- C39 -----------------------------------------------------------------
\* the socket the reconnect timer's callback opened becomes open in this step
Reconnected ==
    /\ binanceAdapter.ws = "connecting"
    /\ binanceAdapter.caller = "timer"
    /\ binanceAdapter'.ws = "open"

C39_SilentSocket ==
    /\ binanceAdapter.ws = "open"
    /\ binanceAdapter.connected
    /\ binanceAdapter.reconnectTimer = "fired"
    /\ binanceAdapter.subscriptions = Symbols
    /\ binanceAdapter.subscribedStreams = Symbols
    /\ binanceAdapter.upstream = {}

\* ==== the frontend store's connection =======================================
\* MAX_RECONNECT_ATTEMPTS of the store
MAX_RECONNECT_ATTEMPTS == 10

\* the most WebSockets the page creates
MaxSockets == 12

\* the most calls of connect(), disconnect() and the hook's reconnect() the
\* user of the store makes
MaxCalls == 2

\* connect() on the store st and the page pg: nothing when ws is set and
\* isConnected; else new WebSocket(WS_URL) and set({ ws: newWs })
storeConnect(st, pg) ==
    IF st.ws # 0 /\ st.isConnected THEN [store |-> st, page |-> pg]
    ELSE [store |-> [st EXCEPT !.ws = Len(pg.sockets) + 1],
          page |-> [pg EXCEPT !.sockets = Append(@, "connecting")]]

\* connect() may create a socket
Room == Len(page.sockets) < MaxSockets

\* _reconnect() on the store st and the page pg: nothing when isConnected or
\* MAX_RECONNECT_ATTEMPTS attempts were counted; else one more attempt and a
\* timer that will call connect()
storeReconnect(st, pg) ==
    IF st.isConnected \/ st.reconnectAttempts >= MAX_RECONNECT_ATTEMPTS
    THEN [store |-> st, page |-> pg]
    ELSE [store |-> [st EXCEPT !.reconnectAttempts = @ + 1],
          page |-> [pg EXCEPT !.timers = @ + 1]]

\* disconnect() on the store st and the page pg: ws.close() when ws is set,
\* then set({ ws: null, isConnected: false, reconnectAttempts:
\* MAX_RECONNECT_ATTEMPTS })
storeDisconnect(st, pg) ==
    [store |-> [st EXCEPT !.ws = 0, !.isConnected = FALSE,
                          !.reconnectAttempts = MAX_RECONNECT_ATTEMPTS],
     page |-> [pg EXCEPT !.sockets =
                   IF st.ws # 0 /\ pg.sockets[st.ws] \in {"connecting", "open"}
                   THEN [@ EXCEPT ![st.ws] = "closing"]
                   ELSE @,
               !.stopped = TRUE]]

\* connect() is called by the hook's effect or by the user of the store
CallConnect ==
    /\ page.calls < MaxCalls
    /\ Room
    /\ LET r == storeConnect(store, [page EXCEPT !.calls = @ + 1, !.stopped = FALSE])
       IN  store' = r.store /\ page' = r.page
    /\ UNCHANGED <<proxy, binanceAdapter, engine>>

\* disconnect() is called
Disconnect320 ==
    /\ page.calls < MaxCalls
    /\ LET r == storeDisconnect(store, [page EXCEPT !.calls = @ + 1])
       IN  store' = r.store /\ page' = r.page
    /\ UNCHANGED <<proxy, binanceAdapter, engine>>

\* the hook's reconnect(): disconnect(); setTimeout(connect, 100)
HookReconnect25 ==
    /\ page.calls < MaxCalls
    /\ ~page.hookTimer
    /\ LET r == storeDisconnect(store, [page EXCEPT !.calls = @ + 1, !.hookTimer = TRUE])
       IN  store' = r.store /\ page' = r.page
    /\ UNCHANGED <<proxy, binanceAdapter, engine>>

\* the hook's timer fires: connect(), as the user asked
HookTimer29 ==
    /\ page.hookTimer
    /\ Room
    /\ LET r == storeConnect(store, [page EXCEPT !.hookTimer = FALSE, !.stopped = FALSE])
       IN  store' = r.store /\ page' = r.page
    /\ UNCHANGED <<proxy, binanceAdapter, engine>>

\* newWs.onopen: set({ ws: newWs, isConnected: true, reconnectAttempts: 0 })
OnOpen274(i) ==
    /\ i \in 1..Len(page.sockets)
    /\ page.sockets[i] = "connecting"
    /\ store' = [store EXCEPT !.ws = i, !.isConnected = TRUE, !.reconnectAttempts = 0]
    /\ page' = [page EXCEPT !.sockets[i] = "open"]
    /\ UNCHANGED <<proxy, binanceAdapter, engine>>

\* newWs.onclose, of a socket that failed, was closed by the server or was
\* closed by disconnect(): set({ isConnected: false, ws: null }) and
\* _reconnect()
OnClose304(i) ==
    /\ i \in 1..Len(page.sockets)
    /\ page.sockets[i] # "closed"
    /\ LET r == storeReconnect([store EXCEPT !.ws = 0, !.isConnected = FALSE],
                               [page EXCEPT !.sockets[i] = "closed"])
       IN  store' = r.store /\ page' = r.page
    /\ UNCHANGED <<proxy, binanceAdapter, engine>>

\* the timer of _reconnect() fires: get().connect()
Timer347 ==
    /\ page.timers > 0
    /\ Room
    /\ LET r == storeConnect(store, [page EXCEPT !.timers = @ - 1])
       IN  store' = r.store /\ page' = r.page
    /\ UNCHANGED <<proxy, binanceAdapter, engine>>

NextStore ==
    \/ CallConnect
    \/ Disconnect320
    \/ HookReconnect25
    \/ HookTimer29
    \/ \E i \in 1..MaxSockets : OnOpen274(i)
    \/ \E i \in 1..MaxSockets : OnClose304(i)
    \/ Timer347

SpecStore == Init /\ [][NextStore]_vars

\* ---- C40 -----------------------------------------------------------------
\* a WebSocket is created in this step
SocketCreated == Len(page'.sockets) > Len(page.sockets)

\* C40: after disconnect() a WebSocket is created only by a connect() that
\* was called explicitly (by the user or by the hook's reconnect), also when
\* a reconnect timer was pending at the disconnect()
C40_NoSocketAfterDisconnect ==
    [][(page.stopped /\ SocketCreated) => ~page'.stopped]_vars

\* C40: _reconnect() sets no timer once MAX_RECONNECT_ATTEMPTS attempts were
\* counted, and counts one attempt per timer
C40_AttemptsLimited ==
    [][page'.timers > page.timers
       => /\ store.reconnectAttempts < MAX_RECONNECT_ATTEMPTS
          /\ store'.reconnectAttempts = store.reconnectAttempts + 1]_vars

\* disconnect() was called last, no connect() was called since, and the
\* store is connected again with its attempts reset
C40_ConnectedAfterDisconnect ==
    /\ page.stopped
    /\ ~page.hookTimer
    /\ store.isConnected
    /\ store.ws # 0
    /\ store.reconnectAttempts = 0

\* ten reconnects failed without any disconnect(): nothing is pending
C40_GaveUp ==
    /\ ~page.stopped
    /\ page.calls = 1
    /\ store.reconnectAttempts = MAX_RECONNECT_ATTEMPTS
    /\ page.timers = 0
    /\ Len(page.sockets) = 11
    /\ \A i \in 1..11 : page.sockets[i] = "closed"
====
